---- MODULE Spec2Model ----
(***************************************************************************)
(* A model of the Kent Denver events generators:                           *)
(*   src/sports-emails/generate_games.py   (weekly emails)                 *)
(*   src/digital-signage/generate_signage.py (daily signage)               *)
(*                                                                         *)
(* Python strings are modelled as sequences of one-character strings, so   *)
(* that slicing, len(), `in`, lower() and strptime() are computed the way  *)
(* the code computes them.  Calendar dates are records [y, m, d].          *)
(***************************************************************************)
EXTENDS Integers, Sequences, FiniteSets, TLC

VARIABLES
    pc,          \* position of the run that is being modelled
    team,        \* the team-name argument of the classifier functions
    ms,          \* is_middle_school_game(team)
    varsity,     \* is_varsity_game(team)
    events,      \* the list handed to categorize_games_by_priority
    is_middle_school,  \* its is_middle_school argument
    featured,    \* first list it returns
    other,       \* second list it returns
    start_dt,    \* start of the requested range (start_date)
    end_dt,      \* end of the requested range (end_date)
    page,        \* rows of the schedule table the GET returns
    has_more,    \* the schedule page offers to load more rows
    sched_response,  \* outcome of the schedule GET
    sched_fetches,   \* page loads made for the schedule so far
    feed,        \* VEVENT components of the arts feed
    arts_response,   \* outcome of the feed GET
    games,       \* what scrape_athletics_schedule returned
    arts_events, \* what fetch_arts_events returned
    raised,      \* an exception reached main
    all_events,  \* main: games + arts_events
    middle_school_events,  \* main: first list of separate_games_by_school
    upper_school_events,   \* main: second list
    files,       \* the email files written, in order
    exit_code,   \* status of sys.exit, -1 while running
    date_keys,   \* keys of the games_by_date handed to get_missing_weekdays
    missing,     \* what get_missing_weekdays returned
    regular,     \* signage: second list categorize_events returns
    layout_calls,  \* the calls of get_layout_config made: argument and result
    categorize_calls,  \* number of calls of categorize_events made
    text_calls   \* the calls of get_dynamic_text_variations: arguments, result

teamVars == <<team, ms, varsity>>
catVars == <<events, is_middle_school, featured, other>>
rangeVars == <<start_dt, end_dt>>
siteVars == <<page, has_more, feed>>
fetchVars == <<sched_response, sched_fetches, arts_response, games, arts_events>>
mainVars == <<all_events, middle_school_events, upper_school_events, files,
              exit_code, raised>>
runVars == <<siteVars, fetchVars, mainVars>>
missingVars == <<date_keys, missing>>
signageVars == <<regular, layout_calls, categorize_calls>>
textVars == <<text_calls>>

vars == <<pc, teamVars, catVars, rangeVars, runVars, missingVars,
          signageVars, textVars>>

----------------------------------------------------------------------------
(* Strings                                                                 *)

UpperAlpha ==
    <<"A","B","C","D","E","F","G","H","I","J","K","L","M",
      "N","O","P","Q","R","S","T","U","V","W","X","Y","Z">>

LowerAlpha ==
    <<"a","b","c","d","e","f","g","h","i","j","k","l","m",
      "n","o","p","q","r","s","t","u","v","w","x","y","z">>

DigitChars == <<"0","1","2","3","4","5","6","7","8","9">>

UpperSet == { UpperAlpha[k] : k \in 1..26 }

ToLower == [c \in UpperSet |-> LowerAlpha[CHOOSE k \in 1..26 : UpperAlpha[k] = c]]

\* str.lower() on one character
LowerChar(c) == IF c \in UpperSet THEN ToLower[c] ELSE c

\* str.lower()
Lower(s) == [k \in 1..Len(s) |-> LowerChar(s[k])]

\* Python's `sub in s` for strings
Contains(s, sub) ==
    \E k \in 0..(Len(s) - Len(sub)) :
        \A j \in 1..Len(sub) : s[k + j] = sub[j]

\* any(indicator in s for indicator in indicators)
ContainsAny(s, indicators) ==
    \E n \in 1..Len(indicators) : Contains(s, indicators[n])

DigitSet == { DigitChars[k] : k \in 1..10 }

DigitOf == [c \in DigitSet |-> (CHOOSE k \in 1..10 : DigitChars[k] = c) - 1]

IsDigit(c) == c \in DigitSet

DigitVal(c) == DigitOf[c]

\* str.isdigit(): non-empty and all characters are digits
IsDigitStr(s) == Len(s) > 0 /\ \A k \in 1..Len(s) : IsDigit(s[k])

\* s[a:] and s[:b] with 0-based Python indices
SliceFrom(s, a) == IF a >= Len(s) THEN <<>> ELSE SubSeq(s, a + 1, Len(s))
SliceTo(s, b) == IF b >= Len(s) THEN s ELSE SubSeq(s, 1, b)

SP == <<" ">>

----------------------------------------------------------------------------
(* Calendar: datetime.date, strptime and strftime                          *)

MonthAbbr ==
    << <<"J","a","n">>, <<"F","e","b">>, <<"M","a","r">>, <<"A","p","r">>,
       <<"M","a","y">>, <<"J","u","n">>, <<"J","u","l">>, <<"A","u","g">>,
       <<"S","e","p">>, <<"O","c","t">>, <<"N","o","v">>, <<"D","e","c">> >>

IsLeap(y) == (y % 4 = 0) /\ ((y % 100 # 0) \/ (y % 400 = 0))

DaysInMonth(y, m) ==
    IF m = 2 THEN (IF IsLeap(y) THEN 29 ELSE 28)
    ELSE IF m \in {4, 6, 9, 11} THEN 30 ELSE 31

\* the dates datetime.date(y, m, d) accepts
ValidDate(y, m, d) ==
    /\ y \in 1..9999
    /\ m \in 1..12
    /\ d >= 1 /\ d <= DaysInMonth(y, m)

Date(y, m, d) == [y |-> y, m |-> m, d |-> d]

RECURSIVE DaysBeforeMonth(_, _)
DaysBeforeMonth(y, m) ==
    IF m <= 1 THEN 0 ELSE DaysBeforeMonth(y, m - 1) + DaysInMonth(y, m - 1)

\* date.toordinal(): 1 for 0001-01-01
Ordinal(dt) ==
    LET p == dt.y - 1 IN
    p * 365 + (p \div 4) - (p \div 100) + (p \div 400)
      + DaysBeforeMonth(dt.y, dt.m) + dt.d

\* the comparison of two dates made strict
DateLT(a, b) == Ordinal(a) < Ordinal(b)

\* a <= b on dates
DateLE(a, b) == Ordinal(a) <= Ordinal(b)

\* date.weekday(): Monday is 0
Weekday(dt) == (Ordinal(dt) + 6) % 7

\* dt + timedelta(days=1)
NextDay(dt) ==
    IF dt.d < DaysInMonth(dt.y, dt.m) THEN Date(dt.y, dt.m, dt.d + 1)
    ELSE IF dt.m < 12 THEN Date(dt.y, dt.m + 1, 1)
    ELSE Date(dt.y + 1, 1, 1)

\* the decimal digits of n, zero-padded to width w
RECURSIVE Digits(_, _)
Digits(n, w) ==
    IF w = 0 THEN <<>>
    ELSE Digits(n \div 10, w - 1) \o <<DigitChars[(n % 10) + 1]>>

\* str(n) for n >= 0
Str(n) ==
    IF n < 10 THEN Digits(n, 1)
    ELSE IF n < 100 THEN Digits(n, 2)
    ELSE IF n < 1000 THEN Digits(n, 3)
    ELSE Digits(n, 4)

\* dt.strftime('%b %d %Y'): the day is zero-padded to two digits, the year
\* is not padded
StrftimeBdY(dt) ==
    MonthAbbr[dt.m] \o SP \o Digits(dt.d, 2) \o SP \o Str(dt.y)

\* The result of a strptime call: ok = FALSE stands for ValueError.
ValueError == [ok |-> FALSE, y |-> 0, m |-> 0, d |-> 0]
Parsed(y, m, d) == [ok |-> TRUE, y |-> y, m |-> m, d |-> d]

\* %b : the month whose abbreviation the first three characters spell,
\* compared without regard to case; 0 when there is none
MonthNames == { Lower(MonthAbbr[m]) : m \in 1..12 }

MonthNumber == [n \in MonthNames |-> CHOOSE m \in 1..12 : Lower(MonthAbbr[m]) = n]

MonthAt(s) ==
    IF Len(s) < 3 THEN 0
    ELSE LET b == Lower(SubSeq(s, 1, 3)) IN
         IF b \in MonthNames THEN MonthNumber[b] ELSE 0

At(s, k) == IF k >= 1 /\ k <= Len(s) THEN s[k] ELSE ""

\* \s+ : the number of blanks from position k on
RECURSIVE Blanks(_, _)
Blanks(s, k) == IF At(s, k) = " " THEN 1 + Blanks(s, k + 1) ELSE 0

\* %d at position k: the alternatives 3[0-1] | [1-2]\d | 0[1-9] | [1-9] | ' '[1-9]
\* of the regular expression strptime builds, in that order; each match is
\* <<position after the day, value of the day>>.
DayMatches(s, k, alts) ==
    LET a == At(s, k)
        b == At(s, k + 1)
        two == DigitVal(a) * 10 + DigitVal(b)
    IN  (IF 1 \in alts /\ a = "3" /\ b \in {"0", "1"}
            THEN << <<k + 2, two>> >> ELSE <<>>)
     \o (IF 2 \in alts /\ a \in {"1", "2"} /\ IsDigit(b)
            THEN << <<k + 2, two>> >> ELSE <<>>)
     \o (IF 3 \in alts /\ a = "0" /\ IsDigit(b) /\ b # "0"
            THEN << <<k + 2, two>> >> ELSE <<>>)
     \o (IF 4 \in alts /\ IsDigit(a) /\ a # "0"
            THEN << <<k + 1, DigitVal(a)>> >> ELSE <<>>)
     \o (IF 5 \in alts /\ a = " " /\ IsDigit(b) /\ b # "0"
            THEN << <<k + 2, DigitVal(b)>> >> ELSE <<>>)

\* %Y at position k: \d\d\d\d; the value, or -1 when it does not match
YearAt(s, k) ==
    IF \A j \in 0..3 : IsDigit(At(s, k + j))
    THEN DigitVal(s[k]) * 1000 + DigitVal(s[k + 1]) * 100
           + DigitVal(s[k + 2]) * 10 + DigitVal(s[k + 3])
    ELSE -1

\* What follows the day, from position k: for '%b %d %Y' a run of blanks and
\* the year, for '%b%d%Y' the year.  <<position after the year, year>>, or
\* <<0, -1>> when the rest does not match.
RestMatch(s, k, spaced) ==
    LET ky == IF spaced THEN k + Blanks(s, k) ELSE k IN
    IF spaced /\ Blanks(s, k) = 0 THEN <<0, -1>>
    ELSE IF YearAt(s, ky) < 0 THEN <<0, -1>>
    ELSE <<ky + 4, YearAt(s, ky)>>

\* The first match taken without strptime's check that nothing remains
\* unconverted after the year.
FirstMatchPrefix(s, m, cands, spaced) ==
    LET good == SelectSeq(cands, LAMBDA c : RestMatch(s, c[1], spaced)[1] > 0) IN
    IF Len(good) = 0 THEN ValueError
    ELSE LET c == good[1]
             r == RestMatch(s, c[1], spaced)
         IN  IF ~ValidDate(r[2], m, c[2]) THEN ValueError
             ELSE Parsed(r[2], m, c[2])

\* The first of the candidate day matches that the rest of the pattern
\* follows (the regular expression's backtracking order), then strptime's own
\* checks: nothing may remain unconverted and the date must exist.
FirstMatch(s, m, cands, spaced) ==
    LET good == SelectSeq(cands, LAMBDA c : RestMatch(s, c[1], spaced)[1] > 0) IN
    IF Len(good) = 0 THEN ValueError
    ELSE LET c == good[1]
             r == RestMatch(s, c[1], spaced)
         IN  IF r[1] # Len(s) + 1 THEN ValueError
             ELSE IF ~ValidDate(r[2], m, c[2]) THEN ValueError
             ELSE Parsed(r[2], m, c[2])

\* datetime.strptime(s, '%b %d %Y')
StrptimeSpaced(s) ==
    LET m == MonthAt(s)
        n == Blanks(s, 4)
    IN  IF m = 0 \/ n = 0 THEN ValueError
        ELSE FirstMatch(s, m,
                 DayMatches(s, 4 + n, {1, 2, 3, 4})
                   \o (IF n >= 2 THEN DayMatches(s, 4 + n - 1, {5}) ELSE <<>>),
                 TRUE)

\* datetime.strptime(s, '%b%d%Y')
StrptimeJoined(s) ==
    LET m == MonthAt(s) IN
    IF m = 0 THEN ValueError
    ELSE FirstMatch(s, m, DayMatches(s, 4, {1, 2, 3, 4, 5}), FALSE)

----------------------------------------------------------------------------
(* Classifier: generate_games.py                                           *)

middle_school_indicators ==
    << <<"m","i","d","d","l","e"," ","s","c","h","o","o","l">>,
       <<"m","s">>,
       <<"6","t","h">>, <<"7","t","h">>, <<"8","t","h">>,
       <<"s","i","x","t","h">>,
       <<"s","e","v","e","n","t","h">>,
       <<"e","i","g","h","t","h">> >>

is_middle_school_game(team_name) ==
    ContainsAny(Lower(team_name), middle_school_indicators)

varsity_indicators ==
    << <<"v","a","r","s","i","t","y">>, <<"v","a","r">> >>

non_varsity_indicators ==
    << <<"j","v">>,
       <<"j","u","n","i","o","r"," ","v","a","r","s","i","t","y">>,
       <<"c"," ","t","e","a","m">>,
       <<"6","t","h">>, <<"7","t","h">>, <<"8","t","h">>,
       <<"m","i","d","d","l","e"," ","s","c","h","o","o","l">>,
       <<"m","s">> >>

\* is_varsity_game with the last return made False: a name without a level
\* marker is not varsity
is_varsity_game_unmarked_false(team_name) ==
    LET team_lower == Lower(team_name) IN
    IF ContainsAny(team_lower, varsity_indicators) THEN TRUE
    ELSE FALSE

is_varsity_game(team_name) ==
    LET team_lower == Lower(team_name) IN
    IF ContainsAny(team_lower, varsity_indicators) THEN TRUE
    ELSE IF ContainsAny(team_lower, non_varsity_indicators) THEN FALSE
    ELSE IF is_middle_school_game(team_name) THEN FALSE
    ELSE TRUE

\* is_featured_game with the school level ignored
is_featured_game_any_level(game, is_ms_email) ==
    IF game.event_type = "arts" THEN TRUE
    ELSE game.is_home \/ is_varsity_game(game.team)

is_featured_game(game, is_ms_email) ==
    IF game.event_type = "arts" THEN TRUE
    ELSE IF is_ms_email THEN game.is_home
    ELSE game.is_home \/ is_varsity_game(game.team)

\* The loop of categorize_games_by_priority over gs[k..], appending to the
\* two lists built so far; the result is the pair <<featured_games, other_games>>.
RECURSIVE CategorizeLoop(_, _, _, _, _)
CategorizeLoop(gs, k, is_ms_email, featured_games, other_games) ==
    IF k > Len(gs) THEN <<featured_games, other_games>>
    ELSE IF is_featured_game(gs[k], is_ms_email)
         THEN CategorizeLoop(gs, k + 1, is_ms_email,
                             Append(featured_games, gs[k]), other_games)
         ELSE CategorizeLoop(gs, k + 1, is_ms_email,
                             featured_games, Append(other_games, gs[k]))

\* categorize_games_by_priority with the append to other_games made
\* unconditional
categorize_games_all_in_other(gs, is_ms_email) ==
    <<CategorizeLoop(gs, 1, is_ms_email, <<>>, <<>>)[1], gs>>

categorize_games_by_priority(gs, is_ms_email) ==
    CategorizeLoop(gs, 1, is_ms_email, <<>>, <<>>)

----------------------------------------------------------------------------
(* Event records: class Game and class Event                               *)

Game(t, opponent, date, time, location, is_home, sport) ==
    [event_type |-> "game", team |-> t, opponent |-> opponent, date |-> date,
     time |-> time, location |-> location, is_home |-> is_home,
     sport |-> Lower(sport)]

Event(title, date, time, location, category) ==
    [event_type |-> "arts", title |-> title, date |-> date, time |-> time,
     location |-> location, category |-> Lower(category),
     team |-> title, is_home |-> TRUE, sport |-> Lower(category)]

----------------------------------------------------------------------------
(* Schedule parser: scrape_athletics_schedule                              *)

MinCells == 6
RangeLenThreshold == 15
MinConcatLen == 8

\* str.strip() (blanks only)
RECURSIVE LStrip(_)
LStrip(s) == IF Len(s) > 0 /\ s[1] = " " THEN LStrip(Tail(s)) ELSE s

RECURSIVE RStrip(_)
RStrip(s) ==
    IF Len(s) > 0 /\ s[Len(s)] = " " THEN RStrip(SubSeq(s, 1, Len(s) - 1)) ELSE s

Strip(s) == LStrip(RStrip(s))

StartsWith(s, sub) == Len(s) >= Len(sub) /\ SubSeq(s, 1, Len(sub)) = sub

\* s.replace(sub, ''): every occurrence, left to right
RECURSIVE RemoveAll(_, _)
RemoveAll(s, sub) ==
    IF Len(s) = 0 THEN <<>>
    ELSE IF StartsWith(s, sub) THEN RemoveAll(SliceFrom(s, Len(sub)), sub)
    ELSE <<s[1]>> \o RemoveAll(Tail(s), sub)

\* s.split('-')[0]
RECURSIVE BeforeHyphen(_)
BeforeHyphen(s) ==
    IF Len(s) = 0 \/ s[1] = "-" THEN <<>>
    ELSE <<s[1]>> \o BeforeHyphen(Tail(s))

S_vs == <<"v","s",".">>
S_home == <<"h","o","m","e">>

\* s.split('-')[-1]
RECURSIVE AfterHyphen(_)
AfterHyphen(s) ==
    IF ~Contains(s, <<"-">>) THEN s
    ELSE AfterHyphen(Tail(s))

\* of a date range keep the last date instead of the first
FirstOfRangeTakesLast(date_str) ==
    IF Contains(date_str, <<"-">>) /\ Len(date_str) > RangeLenThreshold
    THEN Strip(AfterHyphen(date_str))
    ELSE date_str

\* lines 176-180: of a date range keep the first date
FirstOfRange(date_str) ==
    IF Contains(date_str, <<"-">>) /\ Len(date_str) > RangeLenThreshold
    THEN Strip(BeforeHyphen(date_str))
    ELSE date_str

\* the blanks put in with the two lengths of the digit run taken for each
\* other: a one-digit day for six digits, a two-digit day for five
AddSpacesLengthsSwapped(date_str) ==
    IF Len(date_str) >= MinConcatLen /\ IsDigitStr(SliceFrom(date_str, 3))
    THEN LET month == SliceTo(date_str, 3)
             rest == SliceFrom(date_str, 3)
         IN  IF Len(rest) = 6
             THEN month \o SP \o SliceTo(rest, 1) \o SP \o SliceFrom(rest, 1)
             ELSE IF Len(rest) = 5
             THEN month \o SP \o SliceTo(rest, 2) \o SP \o SliceFrom(rest, 2)
             ELSE date_str
    ELSE date_str

\* the blanks put in without the test that only digits follow the month
AddSpacesUnguarded(date_str) ==
    IF Len(date_str) >= MinConcatLen
    THEN LET month == SliceTo(date_str, 3)
             rest == SliceFrom(date_str, 3)
         IN  IF Len(rest) = 6
             THEN month \o SP \o SliceTo(rest, 2) \o SP \o SliceFrom(rest, 2)
             ELSE IF Len(rest) = 5
             THEN month \o SP \o SliceTo(rest, 1) \o SP \o SliceFrom(rest, 1)
             ELSE IF Len(rest) = 7
             THEN month \o SP \o SliceTo(rest, 2) \o SP \o SliceFrom(rest, 2)
             ELSE date_str
    ELSE date_str

\* lines 182-198: put blanks into <month><digits>
AddSpaces(date_str) ==
    IF Len(date_str) >= MinConcatLen /\ IsDigitStr(SliceFrom(date_str, 3))
    THEN LET month == SliceTo(date_str, 3)
             rest == SliceFrom(date_str, 3)
         IN  IF Len(rest) = 6
             THEN month \o SP \o SliceTo(rest, 2) \o SP \o SliceFrom(rest, 2)
             ELSE IF Len(rest) = 5
             THEN month \o SP \o SliceTo(rest, 1) \o SP \o SliceFrom(rest, 1)
             ELSE IF Len(rest) = 7
             THEN month \o SP \o SliceTo(rest, 2) \o SP \o SliceFrom(rest, 2)
             ELSE date_str
    ELSE date_str

\* the date_str the row is parsed and stored with
NormalizeDateStr(date_str) == AddSpaces(FirstOfRange(date_str))

\* lines 201-209: the two accepted formats, in order
ParseGameDate(date_str) ==
    LET first == StrptimeSpaced(date_str) IN
    IF first.ok THEN first ELSE StrptimeJoined(date_str)

Sports ==
    << <<"s","o","c","c","e","r">>, <<"f","o","o","t","b","a","l","l">>,
       <<"t","e","n","n","i","s">>, <<"g","o","l","f">>,
       <<"c","r","o","s","s"," ","c","o","u","n","t","r","y">>,
       <<"f","i","e","l","d"," ","h","o","c","k","e","y">>,
       <<"v","o","l","l","e","y","b","a","l","l">>,
       <<"b","a","s","k","e","t","b","a","l","l">>,
       <<"l","a","c","r","o","s","s","e">>, <<"b","a","s","e","b","a","l","l">>,
       <<"s","w","i","m","m","i","n","g">>, <<"t","r","a","c","k">>,
       <<"i","c","e"," ","h","o","c","k","e","y">> >>

S_xc == <<"x","c">>
S_other == <<"o","t","h","e","r">>

\* the first element of keys (a dict's keys, in order) that t contains;
\* <<>> when there is none
RECURSIVE FirstKeyFrom(_, _, _)
FirstKeyFrom(keys, n, t) ==
    IF n > Len(keys) THEN <<>>
    ELSE IF Contains(t, keys[n]) THEN keys[n]
    ELSE FirstKeyFrom(keys, n + 1, t)

\* The key chosen by where it occurs in t: the contained key whose first
\* occurrence starts earliest (the earlier key of the dict on a tie).
FirstKeyInByPosition(keys, t) ==
    LET hits == { n \in 1..Len(keys) : Contains(t, keys[n]) }
        starts(n) == { k \in 1..Len(t) :
                         /\ k + Len(keys[n]) - 1 <= Len(t)
                         /\ SubSeq(t, k, k + Len(keys[n]) - 1) = keys[n] }
        pos(n) == CHOOSE k \in starts(n) : \A j \in starts(n) : k <= j
    IN  IF hits = {} THEN <<>>
        ELSE keys[CHOOSE n \in hits :
                    \A m \in hits : pos(n) < pos(m) \/ (pos(n) = pos(m) /\ n <= m)]

FirstKeyIn(keys, t) == FirstKeyFrom(keys, 1, t)

\* extract_sport_from_team without the lower() of line 242
extract_sport_case_sensitive(team_name) ==
    LET sport == FirstKeyIn(Sports, team_name) IN
    IF sport # <<>> THEN sport
    ELSE IF Contains(team_name, S_xc) \/ Contains(team_name, Sports[5])
         THEN Sports[5]
    ELSE IF Contains(team_name, Sports[12]) THEN Sports[12]
    ELSE S_other

extract_sport_from_team(team_name) ==
    LET team_lower == Lower(team_name)
        sport == FirstKeyIn(Sports, team_lower)
    IN
    IF sport # <<>> THEN sport
    ELSE IF Contains(team_lower, S_xc) \/ Contains(team_lower, Sports[5])
         THEN Sports[5]
    ELSE IF Contains(team_lower, Sports[12]) THEN Sports[12]
    ELSE S_other

\* The body of the row loop (lines 161-232) for one row: the list of the
\* zero or one Game it appends.  A row is the list of the texts of its cells.
ParseRow(cells, s_dt, e_dt) ==
    IF Len(cells) < MinCells THEN <<>>
    ELSE LET opponent == Strip(RemoveAll(cells[2], S_vs))
             date_str == NormalizeDateStr(cells[3])
             game_date == ParseGameDate(date_str)
         IN  IF ~game_date.ok THEN <<>>
             ELSE IF DateLE(s_dt, game_date) /\ DateLE(game_date, e_dt)
             THEN << Game(cells[1], opponent, date_str, cells[4], cells[5],
                          Lower(cells[6]) = S_home,
                          extract_sport_from_team(cells[1])) >>
             ELSE <<>>

\* The row loop leaving at the first row it skips, as it would if the skip
\* were not confined to the row.
RECURSIVE ScrapeRowsStopAtBad(_, _, _, _, _)
ScrapeRowsStopAtBad(rows, k, s_dt, e_dt, games_so_far) ==
    IF k > Len(rows) THEN games_so_far
    ELSE IF Len(rows[k]) < MinCells
            \/ ~ParseGameDate(NormalizeDateStr(rows[k][3])).ok
         THEN games_so_far
    ELSE ScrapeRowsStopAtBad(rows, k + 1, s_dt, e_dt,
                             games_so_far \o ParseRow(rows[k], s_dt, e_dt))

\* lines 160-234: the row loop from row k on, games_so_far being the list so far
RECURSIVE ScrapeRows(_, _, _, _, _)
ScrapeRows(rows, k, s_dt, e_dt, games_so_far) ==
    IF k > Len(rows) THEN games_so_far
    ELSE ScrapeRows(rows, k + 1, s_dt, e_dt,
                    games_so_far \o ParseRow(rows[k], s_dt, e_dt))

\* scrape_athletics_schedule on the page the one GET returned; response is
\* "error" for a requests.RequestException, "no_table" for a page without a
\* table, "ok" otherwise.
scrape_athletics_schedule(response, rows, s_dt, e_dt) ==
    IF response = "error" THEN <<>>
    ELSE IF response = "no_table" THEN <<>>
    ELSE ScrapeRows(rows, 1, s_dt, e_dt, <<>>)

----------------------------------------------------------------------------
(* Arts feed parser: fetch_arts_events                                     *)

ArtsCategories ==
    << <<"d","a","n","c","e">>, <<"m","u","s","i","c">>,
       <<"t","h","e","a","t","e","r">>, <<"t","h","e","a","t","r","e">>,
       <<"v","i","s","u","a","l">>, <<"a","r","t">>,
       <<"c","o","n","c","e","r","t">>,
       <<"p","e","r","f","o","r","m","a","n","c","e">>,
       <<"s","h","o","w","c","a","s","e">>, <<"e","x","h","i","b","i","t">> >>

extract_arts_category(event_title) ==
    LET category == FirstKeyIn(ArtsCategories, Lower(event_title)) IN
    IF category # <<>> THEN category ELSE ArtsCategories[8]

S_Untitled == <<"U","n","t","i","t","l","e","d"," ","E","v","e","n","t">>
S_TBA == <<"T","B","A">>
S_AllDay == <<"A","l","l"," ","D","a","y">>

\* s.lstrip('0')
RECURSIVE LStripZero(_)
LStripZero(s) == IF Len(s) > 0 /\ s[1] = "0" THEN LStripZero(Tail(s)) ELSE s

\* event_dt.strftime('%I:%M %p').lstrip('0')
FormatTime(hour, minute) ==
    LET h12 == IF hour % 12 = 0 THEN 12 ELSE hour % 12 IN
    LStripZero(Digits(h12, 2) \o <<":">> \o Digits(minute, 2) \o SP
                 \o (IF hour < 12 THEN <<"A","M">> ELSE <<"P","M">>))

\* A VEVENT component: summary and location may be absent; dtstart is
\* absent (kind "none"), a date (kind "date") or a datetime.
Component(has_summary, summary, has_location, location, kind, date, hour, minute) ==
    [has_summary |-> has_summary, summary |-> summary,
     has_location |-> has_location, location |-> location,
     kind |-> kind, date |-> date, hour |-> hour, minute |-> minute]

\* The body of the component loop (lines 290-327) for one VEVENT: the list of
\* the zero or one Event it appends.
ParseComponent(c, s_dt, e_dt) ==
    LET summary == IF c.has_summary THEN c.summary ELSE S_Untitled
        location == IF c.has_location THEN c.location ELSE S_TBA
    IN  IF c.kind = "none" THEN <<>>
        ELSE LET event_time == IF c.kind = "datetime"
                               THEN FormatTime(c.hour, c.minute)
                               ELSE S_AllDay
             IN  IF DateLE(s_dt, c.date) /\ DateLE(c.date, e_dt)
                 THEN << Event(summary, StrftimeBdY(c.date), event_time,
                               location, extract_arts_category(summary)) >>
                 ELSE <<>>

RECURSIVE WalkComponents(_, _, _, _, _)
WalkComponents(comps, k, s_dt, e_dt, events_so_far) ==
    IF k > Len(comps) THEN events_so_far
    ELSE WalkComponents(comps, k + 1, s_dt, e_dt,
                        events_so_far \o ParseComponent(comps[k], s_dt, e_dt))

\* fetch_arts_events on the feed the GET returned; response is "error" for a
\* requests.RequestException.
fetch_arts_events(response, comps, s_dt, e_dt) ==
    IF response = "error" THEN <<>>
    ELSE WalkComponents(comps, 1, s_dt, e_dt, <<>>)

----------------------------------------------------------------------------
(* Grouping by date and the missing weekdays                               *)

\* group_games_by_date: the keys of the dict, in insertion order
RECURSIVE DateKeysLoop(_, _, _)
DateKeysLoop(gs, k, keys) ==
    IF k > Len(gs) THEN keys
    ELSE IF \E j \in 1..Len(keys) : keys[j] = gs[k].date
         THEN DateKeysLoop(gs, k + 1, keys)
         ELSE DateKeysLoop(gs, k + 1, Append(keys, gs[k].date))

DateKeys(gs) == DateKeysLoop(gs, 1, <<>>)

\* group_games_by_date: the list under one key
GamesOn(gs, key) == SelectSeq(gs, LAMBDA g : g.date = key)

\* list.sort() of dates / sorted(strings, key=strptime): a stable insertion
\* sort of a list of <<sort key, item>> pairs
RECURSIVE InsertSorted(_, _)
InsertSorted(sorted, x) ==
    IF Len(sorted) = 0 THEN <<x>>
    ELSE IF sorted[Len(sorted)][1] <= x[1] THEN Append(sorted, x)
    ELSE Append(InsertSorted(SubSeq(sorted, 1, Len(sorted) - 1), x),
                sorted[Len(sorted)])

RECURSIVE SortPairs(_)
SortPairs(q) ==
    IF Len(q) = 0 THEN <<>>
    ELSE InsertSorted(SortPairs(SubSeq(q, 1, Len(q) - 1)), q[Len(q)])

\* The parsed dates kept only for the keys written with a two-digit day, the
\* form the loop over the days looks up.
RECURSIVE GameDatesPaddedOnly(_, _)
GameDatesPaddedOnly(keys, k) ==
    IF k > Len(keys) THEN <<>>
    ELSE (IF StrptimeSpaced(keys[k]).ok
             /\ keys[k] = StrftimeBdY(StrptimeSpaced(keys[k]))
          THEN << <<Ordinal(StrptimeSpaced(keys[k])), keys[k]>> >>
          ELSE <<>>) \o GameDatesPaddedOnly(keys, k + 1)

\* lines 666-672: the keys that parse as '%b %d %Y', as ordinals
RECURSIVE GameDates(_, _)
GameDates(keys, k) ==
    IF k > Len(keys) THEN <<>>
    ELSE (IF StrptimeSpaced(keys[k]).ok
          THEN << <<Ordinal(StrptimeSpaced(keys[k])), keys[k]>> >>
          ELSE <<>>) \o GameDates(keys, k + 1)

\* The loop over the days without the test that the day lies between two days
\* with games.
RECURSIVE MissingLoopAnyGap(_, _, _, _)
MissingLoopAnyGap(keys, game_dates, current_date, e_dt) ==
    IF ~DateLE(current_date, e_dt) THEN <<>>
    ELSE LET date_str == StrftimeBdY(current_date)
             here == IF /\ Weekday(current_date) < 5
                        /\ ~(\E j \in 1..Len(keys) : keys[j] = date_str)
                     THEN <<date_str>> ELSE <<>>
         IN  here \o MissingLoopAnyGap(keys, game_dates, NextDay(current_date), e_dt)

\* lines 685-701: the loop over the days from current_date to end_dt
RECURSIVE MissingLoop(_, _, _, _)
MissingLoop(keys, game_dates, current_date, e_dt) ==
    IF ~DateLE(current_date, e_dt) THEN <<>>
    ELSE LET date_str == StrftimeBdY(current_date)
             is_between_games ==
                 \E n \in 1..(Len(game_dates) - 1) :
                     /\ game_dates[n][1] < Ordinal(current_date)
                     /\ Ordinal(current_date) < game_dates[n + 1][1]
             here == IF /\ Weekday(current_date) < 5
                        /\ ~(\E j \in 1..Len(keys) : keys[j] = date_str)
                        /\ is_between_games
                     THEN <<date_str>> ELSE <<>>
         IN  here \o MissingLoop(keys, game_dates, NextDay(current_date), e_dt)

\* get_missing_weekdays(games_by_date, start_date, end_date), keys being the
\* keys of games_by_date
get_missing_weekdays(keys, s_dt, e_dt) ==
    LET game_dates == GameDates(keys, 1) IN
    IF Len(game_dates) < 2 THEN <<>>
    ELSE MissingLoop(keys, SortPairs(game_dates), s_dt, e_dt)

----------------------------------------------------------------------------
(* Inputs of the classifier runs                                           *)

MaxWords == 2
MaxEvents == 2

\* Words a team name is made of (joined by single spaces).
TeamWords ==
    { <<"V","a","r","s","i","t","y">>,
      <<"J","V">>,
      <<"M","S">>,
      <<"7","t","h">>,
      <<"B","o","y","s">>,
      <<"S","o","c","c","e","r">>,
      <<"R","a","m","s">>,
      <<"S","i","x","t","h">>,
      <<"J","u","n","i","o","r">> }

RECURSIVE NamesOfWords(_)
NamesOfWords(n) ==
    IF n <= 1 THEN TeamWords
    ELSE NamesOfWords(n - 1) \cup
         { a \o SP \o w : a \in NamesOfWords(n - 1), w \in TeamWords }

TeamNames == NamesOfWords(MaxWords)

T_VarsitySoccer == <<"V","a","r","s","i","t","y"," ","S","o","c","c","e","r">>
T_JVSoccer == <<"J","V"," ","S","o","c","c","e","r">>
T_Soccer == <<"S","o","c","c","e","r">>
T_MSSoccer == <<"M","S"," ","S","o","c","c","e","r">>
T_Concert == <<"F","a","l","l"," ","C","o","n","c","e","r","t">>
S_soccer == <<"s","o","c","c","e","r">>
S_concert == <<"c","o","n","c","e","r","t">>
S_Eagles == <<"E","a","g","l","e","s">>
S_Oct3 == <<"O","c","t"," ","3"," ","2","0","2","5">>
S_4pm == <<"4",":","0","0"," ","P","M">>
S_Field == <<"F","i","e","l","d">>

\* The events the categorizer is run on.
CatEvents ==
    { Game(t, S_Eagles, S_Oct3, S_4pm, S_Field, h, S_soccer) :
        t \in {T_VarsitySoccer, T_JVSoccer, T_Soccer, T_MSSoccer},
        h \in BOOLEAN }
    \cup { Event(T_Concert, S_Oct3, S_4pm, S_Field, S_concert) }

RECURSIVE SeqsUpTo(_, _)
SeqsUpTo(S, n) ==
    IF n = 0 THEN { <<>> }
    ELSE SeqsUpTo(S, n - 1) \cup
         { Append(q, e) : q \in SeqsUpTo(S, n - 1), e \in S }

----------------------------------------------------------------------------
(* main of generate_games.py: the helpers it calls                         *)

\* the separation made on games only, every performance going to the upper
\* school
separate_games_performances_upper(gs) ==
    LET MiddleSchoolGame(e) ==
            e.event_type = "game" /\ is_middle_school_game(e.team)
        Other(e) == ~MiddleSchoolGame(e)
    IN  <<SelectSeq(gs, MiddleSchoolGame), SelectSeq(gs, Other)>>

RECURSIVE SeparateLoop(_, _, _, _)
SeparateLoop(gs, k, middle_school_games, upper_school_games) ==
    IF k > Len(gs) THEN <<middle_school_games, upper_school_games>>
    ELSE IF is_middle_school_game(gs[k].team)
         THEN SeparateLoop(gs, k + 1, Append(middle_school_games, gs[k]),
                           upper_school_games)
         ELSE SeparateLoop(gs, k + 1, middle_school_games,
                           Append(upper_school_games, gs[k]))

separate_games_by_school(gs) == SeparateLoop(gs, 1, <<>>, <<>>)

\* sorted(date_strs, key=lambda x: datetime.strptime(x, '%b %d %Y'))
SortedByDate(date_strs) ==
    LET pairs == [k \in 1..Len(date_strs) |->
                     <<Ordinal(StrptimeSpaced(date_strs[k])), date_strs[k]>>]
        sorted == SortPairs(pairs)
    IN  [k \in 1..Len(sorted) |-> sorted[k][2]]

\* every key can be a sort key, i.e. strptime(x, '%b %d %Y') does not raise
AllKeysParse(keys) == \A k \in 1..Len(keys) : StrptimeSpaced(keys[k]).ok

\* generate_html_email, lines 1178-1197: the day sections of one email, in
\* order; each with its date string and whether it is a day with games
EmailSections(gs, s_dt, e_dt) ==
    LET keys == DateKeys(gs)
        all_dates == SortedByDate(keys) \o get_missing_weekdays(keys, s_dt, e_dt)
        all_dates_sorted == SortedByDate(all_dates)
    IN  [k \in 1..Len(all_dates_sorted) |->
            [date |-> all_dates_sorted[k],
             has_games |-> \E n \in 1..Len(keys) : keys[n] = all_dates_sorted[k]]]

EmailFile(level, gs, s_dt, e_dt) ==
    [level |-> level, sections |-> EmailSections(gs, s_dt, e_dt)]

----------------------------------------------------------------------------
(* Inputs of the email run                                                 *)

MaxRows == 2
MaxComponents == 1
MaxKeys == 3

RangeStart == Date(2025, 9, 29)   \* a Monday
RangeEnd == Date(2025, 10, 5)     \* the Sunday after it

S_MSDance == <<"M","S"," ","D","a","n","c","e">>
S_Hall == <<"H","a","l","l">>
S_vsEagles == <<"v","s","."," ","E","a","g","l","e","s">>
S_Home == <<"H","o","m","e">>
S_Away == <<"A","w","a","y">>

Row(t, date_str, advantage) ==
    <<t, S_vsEagles, date_str, S_4pm, S_Field, advantage>>

\* Rows of the schedule table: the day before the range, its first day, a
\* one-digit day inside it, its last day, the day after it, a date that is
\* no date, a row with too few cells, and a date range.
RunRows ==
    { Row(T_VarsitySoccer, <<"S","e","p","2","8","2","0","2","5">>, S_Home),
      Row(T_MSSoccer, <<"S","e","p","2","9","2","0","2","5">>, S_Away),
      Row(T_VarsitySoccer, <<"O","c","t","3","2","0","2","5">>, S_Home),
      Row(T_JVSoccer, <<"O","c","t","5","2","0","2","5">>, S_Away),
      Row(T_Soccer, <<"O","c","t","6","2","0","2","5">>, S_Home),
      Row(T_JVSoccer, <<"T","B","D">>, S_Home),
      <<T_Soccer, S_vsEagles>>,
      Row(T_MSSoccer, <<"O","c","t","1","2","0","2","5","-",
                        "O","c","t","2","2","0","2","5">>, S_Home) }

\* Components of the arts feed: an all-day event on the one-digit day, a
\* timed event on the last day of the range, an event before the range, and
\* one without dtstart.
RunComponents ==
    { Component(TRUE, T_Concert, TRUE, S_Hall, "date", Date(2025, 10, 3), 0, 0),
      Component(TRUE, S_MSDance, FALSE, <<>>, "datetime", Date(2025, 10, 5), 19, 30),
      Component(FALSE, <<>>, TRUE, S_Hall, "date", Date(2025, 9, 28), 0, 0),
      Component(TRUE, T_Concert, TRUE, S_Hall, "none", Date(2025, 10, 3), 0, 0) }

\* The rows and components of the runs of main: games of both school levels,
\* one of them on a one-digit day that also has a performance, and a row whose
\* date cell has a space before the day only ('Oct 32025'), which line 201
\* accepts by its second format '%b%d%Y'.
MainRows ==
    { Row(T_VarsitySoccer, <<"O","c","t","3","2","0","2","5">>, S_Home),
      Row(T_JVSoccer, <<"O","c","t"," ","3","2","0","2","5">>, S_Home),
      Row(T_MSSoccer, <<"S","e","p","2","9","2","0","2","5">>, S_Away),
      Row(T_JVSoccer, <<"O","c","t","5","2","0","2","5">>, S_Away),
      Row(T_JVSoccer, <<"T","B","D">>, S_Home) }

MainComponents ==
    { Component(TRUE, T_Concert, TRUE, S_Hall, "date", Date(2025, 10, 3), 0, 0),
      Component(TRUE, S_MSDance, FALSE, <<>>, "datetime", Date(2025, 10, 5), 19, 30) }

----------------------------------------------------------------------------
(* Initial values of the variables a run does not use                      *)

IdleTeam == team = <<>> /\ ms = FALSE /\ varsity = FALSE

IdleCategorize ==
    /\ events = <<>>
    /\ is_middle_school = FALSE
    /\ featured = <<>>
    /\ other = <<>>

IdleRun ==
    /\ page = <<>>
    /\ has_more = FALSE
    /\ feed = <<>>
    /\ sched_response = "pending"
    /\ sched_fetches = 0
    /\ arts_response = "pending"
    /\ games = <<>>
    /\ arts_events = <<>>
    /\ raised = FALSE
    /\ all_events = <<>>
    /\ middle_school_events = <<>>
    /\ upper_school_events = <<>>
    /\ files = <<>>
    /\ exit_code = -1

IdleRange == start_dt = RangeStart /\ end_dt = RangeEnd

IdleMissing == date_keys = <<>> /\ missing = <<>>

IdleSignage ==
    regular = <<>> /\ layout_calls = <<>> /\ categorize_calls = 0

IdleText == text_calls = <<>>

----------------------------------------------------------------------------
(* Run 1: the classifier functions on one team name                        *)

InitTeam ==
    /\ pc = "team_input"
    /\ team \in TeamNames
    /\ ms = FALSE
    /\ varsity = FALSE
    /\ IdleCategorize /\ IdleRange /\ IdleRun /\ IdleMissing
    /\ IdleSignage /\ IdleText

ClassifyTeam ==
    /\ pc = "team_input"
    /\ ms' = is_middle_school_game(team)
    /\ varsity' = is_varsity_game(team)
    /\ pc' = "team_classified"
    /\ UNCHANGED <<team, catVars, rangeVars, signageVars, textVars, runVars, missingVars>>

NextTeam == ClassifyTeam

SpecTeam == InitTeam /\ [][NextTeam]_vars

----------------------------------------------------------------------------
(* Run 2: categorize_games_by_priority on one event list                   *)

InitCategorize ==
    /\ pc = "cat_input"
    /\ events \in SeqsUpTo(CatEvents, MaxEvents)
    /\ is_middle_school \in BOOLEAN
    /\ featured = <<>>
    /\ other = <<>>
    /\ IdleTeam /\ IdleRange /\ IdleRun /\ IdleMissing
    /\ IdleSignage /\ IdleText

Categorize ==
    /\ pc = "cat_input"
    /\ LET lists == categorize_games_by_priority(events, is_middle_school) IN
          /\ featured' = lists[1]
          /\ other' = lists[2]
    /\ pc' = "cat_done"
    /\ UNCHANGED <<events, is_middle_school, teamVars, rangeVars, signageVars, textVars, runVars,
                   missingVars>>

NextCategorize == Categorize

SpecCategorize == InitCategorize /\ [][NextCategorize]_vars

----------------------------------------------------------------------------
(* Run 3: main of generate_games.py, from the scrape to the files          *)

\* The start of a run on a schedule page made of the given rows and a feed
\* made of the given components.
RunInit(rows, components, more) ==
    /\ pc = "start"
    /\ start_dt = RangeStart
    /\ end_dt = RangeEnd
    /\ page \in SeqsUpTo(rows, MaxRows)
    /\ has_more \in more
    /\ feed \in SeqsUpTo(components, MaxComponents)
    /\ sched_response = "pending"
    /\ sched_fetches = 0
    /\ arts_response = "pending"
    /\ games = <<>>
    /\ arts_events = <<>>
    /\ raised = FALSE
    /\ all_events = <<>>
    /\ middle_school_events = <<>>
    /\ upper_school_events = <<>>
    /\ files = <<>>
    /\ exit_code = -1
    /\ IdleTeam /\ IdleCategorize /\ IdleMissing
    /\ IdleSignage /\ IdleText

Init == RunInit(MainRows, MainComponents, {FALSE})

\* line 966: games = scrape_athletics_schedule(start_date, end_date).  The
\* function makes one GET (line 145) and returns; response is its outcome.
ScrapeSchedule(response) ==
    /\ pc = "start"
    /\ sched_response' = response
    /\ sched_fetches' = sched_fetches + 1
    /\ games' = scrape_athletics_schedule(response, page, start_dt, end_dt)
    /\ pc' = "scraped"
    /\ UNCHANGED <<arts_response, arts_events, siteVars, mainVars, rangeVars, signageVars, textVars,
                   teamVars, catVars, missingVars>>

ScrapeOk == ScrapeSchedule("ok")
ScrapeNoTable == page = <<>> /\ ScrapeSchedule("no_table")
ScrapeNetworkError == ScrapeSchedule("error")

\* line 970: arts_events = fetch_arts_events(start_date, end_date)
FetchArts(response) ==
    /\ pc = "scraped"
    /\ arts_response' = response
    /\ arts_events' = fetch_arts_events(response, feed, start_dt, end_dt)
    /\ pc' = "fetched"
    /\ UNCHANGED <<sched_response, sched_fetches, games, siteVars, mainVars,
                   rangeVars, signageVars, textVars, teamVars, catVars, missingVars>>

FetchArtsOk == FetchArts("ok")
FetchArtsNetworkError == FetchArts("error")

\* the exit for no event made with status 0
ExitNoEventsStatusZero ==
    /\ pc = "fetched"
    /\ games \o arts_events = <<>>
    /\ all_events' = games \o arts_events
    /\ exit_code' = 0
    /\ pc' = "exited"
    /\ UNCHANGED <<middle_school_events, upper_school_events, files, raised,
                   siteVars, fetchVars, rangeVars, signageVars, textVars,
                   teamVars, catVars, missingVars>>

\* lines 974-982: no event at all: sys.exit(1)
ExitNoEvents ==
    /\ pc = "fetched"
    /\ games \o arts_events = <<>>
    /\ all_events' = games \o arts_events
    /\ exit_code' = 1
    /\ pc' = "exited"
    /\ UNCHANGED <<middle_school_events, upper_school_events, files, raised,
                   siteVars, fetchVars, rangeVars, signageVars, textVars, teamVars, catVars,
                   missingVars>>

\* lines 974-987
SeparateBySchool ==
    /\ pc = "fetched"
    /\ games \o arts_events # <<>>
    /\ all_events' = games \o arts_events
    /\ LET separated == separate_games_by_school(games \o arts_events) IN
          /\ middle_school_events' = separated[1]
          /\ upper_school_events' = separated[2]
    /\ pc' = "separated"
    /\ UNCHANGED <<files, exit_code, raised, siteVars, fetchVars, rangeVars, signageVars, textVars,
                   teamVars, catVars, missingVars>>

\* lines 996-1010: the middle-school email.  generate_html_email sorts the
\* date keys with strptime and so raises ValueError on a key it cannot parse.
MiddleSchoolEmail ==
    /\ pc = "separated"
    /\ IF middle_school_events = <<>>
       THEN /\ pc' = "ms_done"
            /\ UNCHANGED <<files, raised, exit_code>>
       ELSE IF AllKeysParse(DateKeys(middle_school_events))
       THEN /\ files' = Append(files, EmailFile("Middle School",
                                   middle_school_events, start_dt, end_dt))
            /\ pc' = "ms_done"
            /\ UNCHANGED <<raised, exit_code>>
       ELSE /\ raised' = TRUE
            /\ exit_code' = 1
            /\ pc' = "exited"
            /\ UNCHANGED files
    /\ UNCHANGED <<all_events, middle_school_events, upper_school_events,
                   siteVars, fetchVars, rangeVars, signageVars, textVars, teamVars, catVars,
                   missingVars>>

\* lines 1013-1030: the upper-school email, then main returns
UpperSchoolEmail ==
    /\ pc = "ms_done"
    /\ IF upper_school_events = <<>>
       THEN /\ pc' = "exited"
            /\ exit_code' = 0
            /\ UNCHANGED <<files, raised>>
       ELSE IF AllKeysParse(DateKeys(upper_school_events))
       THEN /\ files' = Append(files, EmailFile("Upper School",
                                   upper_school_events, start_dt, end_dt))
            /\ pc' = "exited"
            /\ exit_code' = 0
            /\ UNCHANGED raised
       ELSE /\ raised' = TRUE
            /\ exit_code' = 1
            /\ pc' = "exited"
            /\ UNCHANGED files
    /\ UNCHANGED <<all_events, middle_school_events, upper_school_events,
                   siteVars, fetchVars, rangeVars, signageVars, textVars, teamVars, catVars,
                   missingVars>>

Next ==
    \/ ScrapeOk
    \/ ScrapeNoTable
    \/ ScrapeNetworkError
    \/ FetchArtsOk
    \/ FetchArtsNetworkError
    \/ ExitNoEvents
    \/ SeparateBySchool
    \/ MiddleSchoolEmail
    \/ UpperSchoolEmail

Spec == Init /\ [][Next]_vars

----------------------------------------------------------------------------
(* Run 4: the two fetches of main alone, on a wider choice of pages        *)

InitFetch == RunInit(RunRows, RunComponents, BOOLEAN)

NextFetch ==
    \/ ScrapeOk
    \/ ScrapeNoTable
    \/ ScrapeNetworkError
    \/ FetchArtsOk
    \/ FetchArtsNetworkError

SpecFetch == InitFetch /\ [][NextFetch]_vars

----------------------------------------------------------------------------
(* Run 5: get_missing_weekdays on one games_by_date                        *)

\* The date keys an event can carry: the day as the schedule parser stores
\* it (no padding) and as the feed parser stores it (two digits).
KeyOf(dt, padded) ==
    IF padded THEN StrftimeBdY(dt)
    ELSE MonthAbbr[dt.m] \o SP \o Str(dt.d) \o SP \o Str(dt.y)

\* Mon 29 Sep, Wed 1 Oct, Fri 3 Oct, Sat 4 Oct, Mon 6 Oct 2025
EventDays ==
    { Date(2025, 9, 29), Date(2025, 10, 1), Date(2025, 10, 3),
      Date(2025, 10, 4), Date(2025, 10, 6) }

EventKeys == { KeyOf(dt, padded) : dt \in EventDays, padded \in BOOLEAN }

\* a dict has each key once
NoRepeat(q) == \A a, b \in 1..Len(q) : a # b => q[a] # q[b]

\* the requested ranges: Monday to Friday, Monday to Sunday, and a range that
\* starts on a Saturday and ends on the second Wednesday after it
MissingRanges ==
    { <<Date(2025, 9, 29), Date(2025, 10, 3)>>,
      <<Date(2025, 9, 29), Date(2025, 10, 5)>>,
      <<Date(2025, 9, 27), Date(2025, 10, 8)>> }

InitMissing ==
    /\ pc = "missing_input"
    /\ date_keys \in { q \in SeqsUpTo(EventKeys, MaxKeys) : NoRepeat(q) }
    /\ \E r \in MissingRanges : start_dt = r[1] /\ end_dt = r[2]
    /\ missing = <<>>
    /\ IdleTeam /\ IdleCategorize /\ IdleRun
    /\ IdleSignage /\ IdleText

MissingWeekdays ==
    /\ pc = "missing_input"
    /\ missing' = get_missing_weekdays(date_keys, start_dt, end_dt)
    /\ pc' = "missing_done"
    /\ UNCHANGED <<date_keys, rangeVars, signageVars, textVars, teamVars, catVars, runVars>>

NextMissing == MissingWeekdays

SpecMissing == InitMissing /\ [][NextMissing]_vars

----------------------------------------------------------------------------
(* Claims about the classifier                                             *)

\* C1: for every team string s, is_middle_school_game(s) implies that
\* is_varsity_game(s) is false, also when s holds a middle-school indicator
\* together with 'varsity' or 'var'.
C1_MiddleSchoolNeverVarsity ==
    pc = "team_classified" => (ms => ~varsity)

\* C6: every performance is featured; in the middle-school email a game is
\* featured iff it is a home game; in any other email a game is featured iff
\* it is a home game or is_varsity_game(team) is true.
InSeq(e, q) == \E k \in 1..Len(q) : q[k] = e

C6_FeaturedRule ==
    pc = "cat_done" =>
        \A k \in 1..Len(events) :
            LET e == events[k] IN
            /\ e.event_type = "arts" => InSeq(e, featured)
            /\ (e.event_type = "game" /\ is_middle_school) =>
                   (InSeq(e, featured) <=> e.is_home)
            /\ (e.event_type = "game" /\ ~is_middle_school) =>
                   (InSeq(e, featured) <=>
                        (e.is_home \/ is_varsity_game(e.team)))

C6_Witness ==
    /\ pc = "cat_done"
    /\ is_middle_school
    /\ \E k \in 1..Len(events) :
          /\ events[k].event_type = "game"
          /\ ~events[k].is_home
          /\ is_varsity_game(events[k].team)
          /\ InSeq(events[k], other)
    /\ \E k \in 1..Len(events) : events[k].event_type = "arts"

\* C7: categorize_games_by_priority partitions its input: every input event
\* is in exactly one of the two returned lists, none is added or dropped, and
\* each returned list keeps the relative order of the input.
RECURSIVE Pick(_, _, _)
\* the elements of q at the positions in S, from position k on, in order
Pick(q, S, k) ==
    IF k > Len(q) THEN <<>>
    ELSE IF k \in S THEN <<q[k]>> \o Pick(q, S, k + 1)
    ELSE Pick(q, S, k + 1)

C7_Partition ==
    pc = "cat_done" =>
        /\ Len(featured) + Len(other) = Len(events)
        /\ \E S \in SUBSET (1..Len(events)) :
              /\ featured = Pick(events, S, 1)
              /\ other = Pick(events, (1..Len(events)) \ S, 1)
        /\ \A e \in CatEvents : ~(InSeq(e, featured) /\ InSeq(e, other))

C7_Witness ==
    /\ pc = "cat_done"
    /\ Len(featured) >= 1
    /\ Len(other) >= 1

----------------------------------------------------------------------------
(* Claims about the schedule scrape and the feed                           *)

\* the date the schedule parser reads from a row
RowDate(r) == ParseGameDate(NormalizeDateStr(r[3]))

\* the latest event date among the rows the scrape has seen, as an ordinal;
\* 0 when it has seen no dated row
LatestSeen ==
    LET seen == IF sched_response = "ok" THEN page ELSE <<>>
        dated == { k \in 1..Len(seen) :
                      Len(seen[k]) >= MinCells /\ RowDate(seen[k]).ok }
    IN  IF dated = {} THEN 0
        ELSE CHOOSE o \in { Ordinal(RowDate(seen[k])) : k \in dated } :
                 \A k \in dated : Ordinal(RowDate(seen[k])) <= o

\* the condition under which the scrape is to escalate after its first pass
Stage1Insufficient == games = <<>> \/ LatestSeen < Ordinal(end_dt)

\* the scrape went on to a second stage: it loaded the page more than once
Stage2Entered == sched_fetches > 1

\* C2: after the single Stage 1 pass, Stage 2 is entered if and only if
\* Stage 1 yielded zero rows or its latest event date is earlier than the
\* requested end date (and what Stage 2 returns replaces Stage 1's result).
C2_EscalationIff ==
    sched_response # "pending" => (Stage2Entered <=> Stage1Insufficient)

\* C3: the scrape stops loading more only when the latest date seen covers
\* the requested end date, or nothing more can be loaded, or the maximum
\* number of iterations (50) is reached; it then returns without raising.
C3_StopsCoveredExhaustedOrBounded ==
    sched_response # "pending" =>
        /\ \/ LatestSeen >= Ordinal(end_dt)
           \/ ~has_more
           \/ sched_fetches - 1 = 50
        /\ sched_fetches - 1 <= 50
        /\ ~raised

\* C4: a network failure of the schedule fetch is not retried in Stage 1 but
\* triggers the Stage 2 escalation; a network failure of the feed fetch
\* yields an empty event list; in neither case does an exception propagate.
C4_NetworkFailures ==
    /\ sched_response = "error" => (Stage2Entered /\ ~raised)
    /\ arts_response = "error" => (arts_events = <<>> /\ ~raised)

\* a row the schedule parser can date, with its date inside the range
RowInRange(r) ==
    /\ Len(r) >= MinCells
    /\ RowDate(r).ok
    /\ Ordinal(start_dt) <= Ordinal(RowDate(r))
    /\ Ordinal(RowDate(r)) <= Ordinal(end_dt)

\* a component with a start, the date of it inside the range
ComponentInRange(c) ==
    /\ c.kind # "none"
    /\ Ordinal(start_dt) <= Ordinal(c.date)
    /\ Ordinal(c.date) <= Ordinal(end_dt)

\* C5: both parsers keep a well-formed record exactly when its date d has
\* start <= d <= end, the two boundary dates included, and drop every record
\* dated outside the range.
C5_RangeFilter ==
    /\ sched_response = "ok" =>
          LET kept == SelectSeq(page, RowInRange) IN
          /\ Len(games) = Len(kept)
          /\ \A n \in 1..Len(kept) :
                /\ games[n].team = kept[n][1]
                /\ ParseGameDate(games[n].date) = RowDate(kept[n])
    /\ arts_response = "ok" =>
          LET kept == SelectSeq(feed, ComponentInRange) IN
          /\ Len(arts_events) = Len(kept)
          /\ \A n \in 1..Len(kept) :
                LET parsed == StrptimeSpaced(arts_events[n].date) IN
                /\ parsed.ok
                /\ Date(parsed.y, parsed.m, parsed.d) = kept[n].date

C5_Witness ==
    /\ sched_response = "ok"
    /\ arts_response = "ok"
    /\ \E n \in 1..Len(games) :
          Ordinal(ParseGameDate(games[n].date)) = Ordinal(end_dt)
    /\ \E k \in 1..Len(page) :
          /\ Len(page[k]) >= MinCells
          /\ RowDate(page[k]).ok
          /\ Ordinal(RowDate(page[k])) > Ordinal(end_dt)
    /\ \E n \in 1..Len(arts_events) :
          Ordinal(StrptimeSpaced(arts_events[n].date)) = Ordinal(end_dt)

\* a row that yields no Game whatever the range: too few cells, or a date
\* token that neither format accepts
BadRow(r) == Len(r) < MinCells \/ ~RowDate(r).ok

\* q without its k-th element
Without(q, k) == SubSeq(q, 1, k - 1) \o SubSeq(q, k + 1, Len(q))

\* C10: a row with fewer than 6 cells or an unparseable date produces no Game
\* and raises nothing, and the Games of the other rows are the same, in the
\* same order, as if that row were absent.
C10_BadRowsIsolated ==
    sched_response = "ok" =>
        /\ ~raised
        /\ \A k \in 1..Len(page) :
              BadRow(page[k]) =>
                  /\ ParseRow(page[k], start_dt, end_dt) = <<>>
                  /\ games = scrape_athletics_schedule("ok", Without(page, k),
                                                       start_dt, end_dt)

C10_Witness ==
    /\ sched_response = "ok"
    /\ Len(page) >= 2
    /\ BadRow(page[1])
    /\ RowInRange(page[2])
    /\ Len(games) = 1

\* two date strings of events naming one calendar day
SameDay(a, b) ==
    /\ ParseGameDate(a).ok
    /\ ParseGameDate(a) = ParseGameDate(b)

\* C9: a Game and a Performance on the same calendar day carry equal date
\* values, so that grouping by date puts them under one key and an email has
\* one section for that day.
C9_SameDayOneKey ==
    /\ \A i \in 1..Len(games) : \A j \in 1..Len(arts_events) :
          SameDay(games[i].date, arts_events[j].date) =>
              games[i].date = arts_events[j].date
    /\ \A f \in 1..Len(files) :
          \A a, b \in 1..Len(files[f].sections) :
              (a # b /\ files[f].sections[a].has_games
                     /\ files[f].sections[b].has_games) =>
                  ~SameDay(files[f].sections[a].date, files[f].sections[b].date)

----------------------------------------------------------------------------
(* Claims about the missing weekdays                                       *)

\* the days from Sat 27 Sep to Wed 8 Oct 2025
WindowDays ==
    { Date(2025, 9, d) : d \in 27..30 } \cup { Date(2025, 10, d) : d \in 1..8 }

\* the calendar days (ordinals) on which an event of games_by_date falls
EventOrdinals == { Ordinal(StrptimeSpaced(date_keys[k])) : k \in 1..Len(date_keys) }

\* C8: get_missing_weekdays returns exactly the days d of [start, end] that
\* are Monday..Friday, have no event, and lie strictly between two event
\* dates; no weekend day, no day before the first or after the last event,
\* and nothing at all with fewer than two event dates.
C8_MissingWeekdays ==
    pc = "missing_done" =>
        LET expected ==
                { d \in WindowDays :
                    /\ Ordinal(start_dt) <= Ordinal(d)
                    /\ Ordinal(d) <= Ordinal(end_dt)
                    /\ Weekday(d) < 5
                    /\ Ordinal(d) \notin EventOrdinals
                    /\ \E a, b \in EventOrdinals :
                          a < Ordinal(d) /\ Ordinal(d) < b }
        IN  /\ { missing[n] : n \in 1..Len(missing) }
                 = { StrftimeBdY(d) : d \in expected }
            /\ Len(missing) = Cardinality(expected)
            /\ Cardinality(EventOrdinals) < 2 => missing = <<>>

\* events on Monday and Wednesday of a Monday-to-Friday range: Tuesday only
C8_Witness ==
    /\ pc = "missing_done"
    /\ start_dt = Date(2025, 9, 29)
    /\ end_dt = Date(2025, 10, 3)
    /\ EventOrdinals = { Ordinal(Date(2025, 9, 29)), Ordinal(Date(2025, 10, 1)) }
    /\ missing = << StrftimeBdY(Date(2025, 9, 30)) >>

----------------------------------------------------------------------------
(* Run 6: the scrape of a page of one row, over the date tokens            *)

\* the years the date tokens are built for: a leap year and a common year
TokenYears == {2024, 2025}

TokenDates ==
    { Date(y, m, d) : y \in TokenYears, m \in 1..12, d \in 1..31 }
        \ { dt \in [y : TokenYears, m : 1..12, d : 1..31] :
              dt.d > DaysInMonth(dt.y, dt.m) }

\* the day of a token: one or two digits, two when padded
DayDigits(d, padded) == IF padded THEN Digits(d, 2) ELSE Str(d)

\* 'MonDYYYY' / 'MonDDYYYY'
ConcatToken(dt, padded) ==
    MonthAbbr[dt.m] \o DayDigits(dt.d, padded) \o Digits(dt.y, 4)

\* 'Mon D YYYY' / 'Mon DD YYYY'
SpacedToken(dt, padded) ==
    MonthAbbr[dt.m] \o SP \o DayDigits(dt.d, padded) \o SP \o Digits(dt.y, 4)

\* each concatenated token with the date it is written for
ConcatTable ==
    { <<ConcatToken(dt, padded), dt>> : dt \in TokenDates, padded \in BOOLEAN }

\* each spaced token with its concatenated form and its date
SpacedTable ==
    { <<SpacedToken(dt, padded), ConcatToken(dt, padded), dt>> :
        dt \in TokenDates, padded \in BOOLEAN }

\* the days the range tokens are made of: the day before the week of
\* RangeStart, days inside it, the day after it and a later day
RangeTokenDays ==
    { Date(2025, 9, 28), Date(2025, 9, 29), Date(2025, 10, 3),
      Date(2025, 10, 5), Date(2025, 10, 6), Date(2025, 10, 12) }

\* 'A-B' of two concatenated dates, with A and B
RangeTable ==
    { <<ConcatToken(a, FALSE) \o <<"-">> \o ConcatToken(b, FALSE), a, b>> :
        a \in RangeTokenDays, b \in RangeTokenDays }

\* tokens with a hyphen that are not longer than RangeLenThreshold, each with
\* the part before its hyphen
ShortHyphenTable ==
    { <<ConcatToken(a, FALSE) \o <<"-">> \o t, ConcatToken(a, FALSE)>> :
        a \in { dt \in RangeTokenDays : dt.d < 10 },
        t \in { <<"4">>, <<"O","c","t","4">>, <<"O","c","t","1","2">> } }

\* digits put before or after the six digits of a concatenated token
ExtraDigits == {"0", "1", "5", "9"}

\* tokens of a month and a run of seven digits: a two-digit day and a year
\* with one digit more, and a day with one digit more and a four-digit year
SevenDigitTokens ==
    { ConcatToken(dt, TRUE) \o <<c>> :
        dt \in { t \in TokenDates : t.y = 2025 }, c \in ExtraDigits }
    \cup { MonthAbbr[dt.m] \o <<c>> \o Digits(dt.d, 2) \o Digits(dt.y, 4) :
             dt \in { t \in TokenDates : t.y = 2025 }, c \in ExtraDigits }

\* the runs: a token and the requested range
DateInputs ==
    { <<t, Date(2024, 1, 1), Date(2025, 12, 31)>> : t \in SevenDigitTokens } \cup
    { <<e[1], Date(2024, 1, 1), Date(2025, 12, 31)>> : e \in ConcatTable }
    \cup { <<e[1], Date(2024, 1, 1), Date(2025, 12, 31)>> : e \in SpacedTable }
    \cup { <<e[1], RangeStart, RangeEnd>> : e \in RangeTable }
    \cup { <<e[1], RangeStart, RangeEnd>> : e \in ShortHyphenTable }

InitDates ==
    /\ pc = "start"
    /\ \E input \in DateInputs :
          /\ page = << Row(T_Soccer, input[1], S_Home) >>
          /\ start_dt = input[2]
          /\ end_dt = input[3]
    /\ has_more = FALSE
    /\ feed = <<>>
    /\ sched_response = "pending"
    /\ sched_fetches = 0
    /\ arts_response = "pending"
    /\ games = <<>>
    /\ arts_events = <<>>
    /\ raised = FALSE
    /\ all_events = <<>>
    /\ middle_school_events = <<>>
    /\ upper_school_events = <<>>
    /\ files = <<>>
    /\ exit_code = -1
    /\ IdleTeam /\ IdleCategorize /\ IdleMissing
    /\ IdleSignage /\ IdleText

NextDates == ScrapeOk

SpecDates == InitDates /\ [][NextDates]_vars

----------------------------------------------------------------------------
(* Claims about the date token                                             *)

\* the scrape of the one-row page has returned
DatesScraped == pc = "scraped" /\ sched_response = "ok" /\ Len(page) = 1

\* the date token of the row
Token == page[1][3]

\* C11: a concatenated token <month><digits> with a 6-digit run is split into
\* a 2-digit day and a 4-digit year, with a 5-digit run into a 1-digit day
\* and a 4-digit year, so that for every valid month, day and 4-digit year
\* the token 'MonDYYYY' / 'MonDDYYYY' parses to exactly that date.
C11_ConcatenatedTokenParses ==
    DatesScraped =>
        \A e \in ConcatTable :
            Token = e[1] =>
                /\ Len(games) = 1
                /\ games[1].date = SpacedToken(e[2], Len(e[1]) = 9)
                /\ ParseGameDate(games[1].date) = Parsed(e[2].y, e[2].m, e[2].d)

\* 'Sep222025' gives 22 Sep 2025
C11_Witness ==
    /\ DatesScraped
    /\ Token = <<"S","e","p","2","2","2","0","2","5">>
    /\ Len(games) = 1
    /\ games[1].date = <<"S","e","p"," ","2","2"," ","2","0","2","5">>

\* C12: a token already of the form 'Mon D YYYY' is left unchanged by the
\* normalization and parses to the same date as its concatenated form.
C12_NormalizedTokenUnchanged ==
    DatesScraped =>
        \A e \in SpacedTable :
            Token = e[1] =>
                /\ Len(games) = 1
                /\ games[1].date = e[1]
                /\ ParseGameDate(games[1].date) = Parsed(e[3].y, e[3].m, e[3].d)
                /\ ParseGameDate(games[1].date)
                       = ParseGameDate(NormalizeDateStr(e[2]))

\* 'Oct 3 2025' stays 'Oct 3 2025'
C12_Witness ==
    /\ DatesScraped
    /\ Token = S_Oct3
    /\ Len(games) = 1
    /\ games[1].date = S_Oct3

\* the date dt lies in the requested range
InRequestedRange(dt) ==
    Ordinal(start_dt) <= Ordinal(dt) /\ Ordinal(dt) <= Ordinal(end_dt)

\* C13: of a range token 'A-B' of two concatenated dates (always longer than
\* the threshold of 15) the effective date is A: the row is dated, filtered
\* and stored by A alone, whatever B is; a token with a hyphen that is not
\* longer than the threshold is not split.
C13_RangeTokenFirstDate ==
    DatesScraped =>
        /\ \A e \in RangeTable :
              Token = e[1] =>
                  /\ Len(e[1]) > RangeLenThreshold
                  /\ Len(games) = (IF InRequestedRange(e[2]) THEN 1 ELSE 0)
                  /\ \A n \in 1..Len(games) :
                        /\ games[n].date = SpacedToken(e[2], FALSE)
                        /\ ParseGameDate(games[n].date)
                               = Parsed(e[2].y, e[2].m, e[2].d)
        /\ \A e \in ShortHyphenTable :
              Token = e[1] =>
                  /\ Len(e[1]) <= RangeLenThreshold
                  /\ NormalizeDateStr(e[1]) = e[1]
                  /\ games = <<>>

\* 'Oct32025-Oct122025' is stored as 'Oct 3 2025', the second date being
\* outside the requested range
C13_Witness ==
    /\ DatesScraped
    /\ Token = ConcatToken(Date(2025, 10, 3), FALSE) \o <<"-">>
                   \o ConcatToken(Date(2025, 10, 12), FALSE)
    /\ Len(games) = 1
    /\ games[1].date = S_Oct3


----------------------------------------------------------------------------
(* Claims about the level of a team and the two school lists               *)

\* the JV, grade-level and middle-school markers of a team name
LevelMarkers ==
    { non_varsity_indicators[k] : k \in 1..Len(non_varsity_indicators) }
    \cup { middle_school_indicators[k] : k \in 1..Len(middle_school_indicators) }

HasMiddleSchoolText(e) ==
    \E k \in 1..Len(middle_school_indicators) :
        Contains(Lower(e.team), middle_school_indicators[k])

HasNoMiddleSchoolText(e) == ~HasMiddleSchoolText(e)

\* C16: separate_games_by_school puts every event in exactly one of the two
\* lists: in the middle-school list exactly when its team/title text holds a
\* middle-school indicator, in the upper-school list otherwise; none is lost
\* or duplicated and the relative order is kept.
C16_SchoolPartition ==
    pc \in {"separated", "ms_done"} =>
        /\ middle_school_events = SelectSeq(all_events, HasMiddleSchoolText)
        /\ upper_school_events = SelectSeq(all_events, HasNoMiddleSchoolText)
        /\ Len(middle_school_events) + Len(upper_school_events) = Len(all_events)
        /\ \A a \in 1..Len(middle_school_events) :
              \A b \in 1..Len(upper_school_events) :
                  middle_school_events[a] # upper_school_events[b]

\* a middle-school game and a middle-school performance in the first list, an
\* upper-school game in the second
C16_Witness ==
    /\ pc = "separated"
    /\ \E a \in 1..Len(middle_school_events) :
          middle_school_events[a].event_type = "game"
    /\ \E a \in 1..Len(middle_school_events) :
          middle_school_events[a].event_type = "arts"
    /\ \E b \in 1..Len(upper_school_events) :
          upper_school_events[b].event_type = "game"

\* C17: when the combined list of games and arts events is empty, the run
\* ends with a non-zero exit status and neither email file is written.
C17_EmptyRunFails ==
    (pc \notin {"start", "scraped"} /\ games \o arts_events = <<>>) =>
        /\ files = <<>>
        /\ pc \in {"fetched", "exited"}
        /\ pc = "exited" => (exit_code # 0 /\ exit_code # -1)

\* both fetches succeeded, the page had a row, and still there is no event
C17_Witness ==
    /\ pc = "exited"
    /\ sched_response = "ok"
    /\ arts_response = "ok"
    /\ Len(page) >= 1
    /\ games \o arts_events = <<>>
    /\ exit_code = 1
    /\ files = <<>>


----------------------------------------------------------------------------
(* Signage: generate_signage.py                                            *)

\* lines 88-97: the loop of categorize_events over evs[k..], appending to the
\* two lists built so far; the result is the pair <<featured, regular>>
RECURSIVE CategorizeEventsLoop(_, _, _, _)
CategorizeEventsLoop(evs, k, featured_so_far, regular_so_far) ==
    IF k > Len(evs) THEN <<featured_so_far, regular_so_far>>
    ELSE IF evs[k].event_type = "arts"
         THEN CategorizeEventsLoop(evs, k + 1, Append(featured_so_far, evs[k]),
                                   regular_so_far)
    ELSE IF evs[k].event_type = "game"
         THEN IF is_varsity_game(evs[k].team)
              THEN CategorizeEventsLoop(evs, k + 1,
                                        Append(featured_so_far, evs[k]),
                                        regular_so_far)
              ELSE CategorizeEventsLoop(evs, k + 1, featured_so_far,
                                        Append(regular_so_far, evs[k]))
    ELSE CategorizeEventsLoop(evs, k + 1, featured_so_far, regular_so_far)

categorize_events(evs) == CategorizeEventsLoop(evs, 1, <<>>, <<>>)

----------------------------------------------------------------------------
(* Run 7: one event list categorized for an email or for the signage       *)

InitFeatured ==
    /\ pc \in {"cat_input", "signage_input"}
    /\ events \in SeqsUpTo(CatEvents, MaxEvents)
    /\ is_middle_school \in BOOLEAN
    /\ pc = "signage_input" => ~is_middle_school
    /\ featured = <<>>
    /\ other = <<>>
    /\ regular = <<>>
    /\ layout_calls = <<>>
    /\ categorize_calls = 0
    /\ IdleTeam /\ IdleRange /\ IdleRun /\ IdleMissing /\ IdleText

\* generate_signage.py line 328: featured, regular = categorize_events(events)
CategorizeEvents ==
    /\ pc = "signage_input"
    /\ LET lists == categorize_events(events) IN
          /\ featured' = lists[1]
          /\ regular' = lists[2]
    /\ categorize_calls' = categorize_calls + 1
    /\ pc' = "signage_done"
    /\ UNCHANGED <<events, is_middle_school, other, layout_calls, teamVars,
                   rangeVars, runVars, missingVars, textVars>>

NextFeatured == Categorize \/ CategorizeEvents

SpecFeatured == InitFeatured /\ [][NextFeatured]_vars

\* the events that are to be shown prominently: performances, home games and
\* varsity games
Prominent(e) ==
    \/ e.event_type = "arts"
    \/ e.event_type = "game" /\ (e.is_home \/ is_varsity_game(e.team))

\* C18: every performance, every home game and every varsity game is in the
\* featured group, both after the email categorization for an email that is
\* not the middle-school one and after the signage categorization.
C18_ProminentAreFeatured ==
    /\ (pc = "cat_done" /\ ~is_middle_school) =>
          \A k \in 1..Len(events) :
              Prominent(events[k]) => InSeq(events[k], featured)
    /\ pc = "signage_done" =>
          \A k \in 1..Len(events) :
              Prominent(events[k]) => InSeq(events[k], featured)


----------------------------------------------------------------------------
(* Signage: get_layout_config                                              *)

\* lines 108-230: the record each branch of get_layout_config returns, in
\* the order of the branches: total_events = 1, 2, 3, 4, 5, 6, 7 and the else
LayoutTable ==
    <<
      [ emoji_size |-> "88px", title_size |-> "58px",
        subtitle_size |-> "38px", badge_size |-> "30px",
        time_size |-> "48px", padding |-> "70px 80px",
        top_accent |-> "28px", border_width |-> "4px",
        margin |-> "30px", grid_columns |-> "1fr",
        section_title_size |-> "48px", card_height |-> "auto" ],
      [ emoji_size |-> "88px", title_size |-> "58px",
        subtitle_size |-> "38px", badge_size |-> "30px",
        time_size |-> "48px", padding |-> "70px 80px",
        top_accent |-> "28px", border_width |-> "4px",
        margin |-> "30px", grid_columns |-> "1fr",
        section_title_size |-> "48px", card_height |-> "auto" ],
      [ emoji_size |-> "80px", title_size |-> "52px",
        subtitle_size |-> "34px", badge_size |-> "28px",
        time_size |-> "42px", padding |-> "60px 70px",
        top_accent |-> "26px", border_width |-> "4px",
        margin |-> "25px", grid_columns |-> "repeat(3, 1fr)",
        section_title_size |-> "46px", card_height |-> "auto" ],
      [ emoji_size |-> "76px", title_size |-> "50px",
        subtitle_size |-> "34px", badge_size |-> "28px",
        time_size |-> "44px", padding |-> "70px 70px",
        top_accent |-> "26px", border_width |-> "4px",
        margin |-> "10px", grid_columns |-> "repeat(2, 1fr)",
        section_title_size |-> "46px", card_height |-> "auto" ],
      [ emoji_size |-> "70px", title_size |-> "46px",
        subtitle_size |-> "30px", badge_size |-> "26px",
        time_size |-> "40px", padding |-> "55px 55px",
        top_accent |-> "24px", border_width |-> "4px",
        margin |-> "10px", grid_columns |-> "repeat(3, 1fr)",
        section_title_size |-> "44px", card_height |-> "auto" ],
      [ emoji_size |-> "72px", title_size |-> "48px",
        subtitle_size |-> "32px", badge_size |-> "26px",
        time_size |-> "40px", padding |-> "60px 50px",
        top_accent |-> "24px", border_width |-> "4px",
        margin |-> "8px", grid_columns |-> "repeat(3, 1fr)",
        section_title_size |-> "44px", card_height |-> "auto" ],
      [ emoji_size |-> "64px", title_size |-> "42px",
        subtitle_size |-> "28px", badge_size |-> "24px",
        time_size |-> "36px", padding |-> "45px 45px",
        top_accent |-> "20px", border_width |-> "3px",
        margin |-> "8px", grid_columns |-> "repeat(4, 1fr)",
        section_title_size |-> "40px", card_height |-> "auto" ],
      [ emoji_size |-> "60px", title_size |-> "40px",
        subtitle_size |-> "26px", badge_size |-> "22px",
        time_size |-> "34px", padding |-> "40px 40px",
        top_accent |-> "18px", border_width |-> "3px",
        margin |-> "6px", grid_columns |-> "repeat(4, 1fr)",
        section_title_size |-> "38px", card_height |-> "auto" ]
    >>

\* get_layout_config with the last branch taken for 8 only and the first
\* record as the fall-through
get_layout_config_eight_only(total_events) ==
    IF total_events \in 1..8 THEN LayoutTable[total_events]
    ELSE LayoutTable[1]

\* lines 110-230: the chain of comparisons of total_events with 1..7, then
\* the else branch
get_layout_config(total_events) ==
    IF total_events = 1 THEN LayoutTable[1]
    ELSE IF total_events = 2 THEN LayoutTable[2]
    ELSE IF total_events = 3 THEN LayoutTable[3]
    ELSE IF total_events = 4 THEN LayoutTable[4]
    ELSE IF total_events = 5 THEN LayoutTable[5]
    ELSE IF total_events = 6 THEN LayoutTable[6]
    ELSE IF total_events = 7 THEN LayoutTable[7]
    ELSE LayoutTable[8]

----------------------------------------------------------------------------
(* Run 8: calls of get_layout_config                                       *)

MaxCount == 10
MaxLayoutCalls == 2

\* the counts the function is called with
LayoutCounts == (0 - MaxCount)..MaxCount

InitLayout ==
    /\ pc = "layout"
    /\ layout_calls = <<>>
    /\ regular = <<>>
    /\ categorize_calls = 0
    /\ IdleTeam /\ IdleCategorize /\ IdleRange /\ IdleRun /\ IdleMissing
    /\ IdleText

\* generate_signage.py line 325: layout_config = get_layout_config(total_events)
GetLayoutConfig ==
    /\ pc = "layout"
    /\ Len(layout_calls) < MaxLayoutCalls
    /\ \E total_events \in LayoutCounts :
          layout_calls' = Append(layout_calls,
                                 [total_events |-> total_events,
                                  layout_config |-> get_layout_config(total_events)])
    /\ UNCHANGED <<pc, regular, categorize_calls, teamVars, catVars, rangeVars, runVars,
                   missingVars, textVars>>

NextLayout == GetLayoutConfig

SpecLayout == InitLayout /\ [][NextLayout]_vars

\* the keys of a layout record
LayoutKeys ==
    { "emoji_size", "title_size", "subtitle_size", "badge_size", "time_size",
      "padding", "top_accent", "border_width", "margin", "grid_columns",
      "section_title_size", "card_height" }

\* the bucket of a count of at least 1: the count itself up to 7, then 8
Bucket(n) == IF n < 8 THEN n ELSE 8

\* C20: get_layout_config is a total lookup keyed by count bucket: for every
\* integer count the record has the same set of keys, two calls with the
\* same count return identical records, the record depends only on the
\* bucket (1, 2, 3, 4, 5, 6, 7 or 8+) of the count, and all counts of 8 or
\* more return the same record.
C20_LayoutLookup ==
    /\ \A i \in 1..Len(layout_calls) :
          DOMAIN layout_calls[i].layout_config = LayoutKeys
    /\ \A i, j \in 1..Len(layout_calls) :
          LET a == layout_calls[i]
              b == layout_calls[j]
          IN  /\ a.total_events = b.total_events =>
                     a.layout_config = b.layout_config
              /\ (a.total_events >= 1 /\ b.total_events >= 1
                    /\ Bucket(a.total_events) = Bucket(b.total_events)) =>
                     a.layout_config = b.layout_config
              /\ (a.total_events >= 8 /\ b.total_events >= 8) =>
                     a.layout_config = b.layout_config

\* a call with 8 and a call with more than 8
C20_Witness ==
    /\ Len(layout_calls) = 2
    /\ layout_calls[1].total_events = 8
    /\ layout_calls[2].total_events > 8
    /\ layout_calls[1].layout_config = layout_calls[2].layout_config


----------------------------------------------------------------------------
(* Text variations: get_dynamic_text_variations                            *)

\* the ordinal of the Monday of ISO week 1 of year y: the week of 4 January
IsoWeek1Monday(y) ==
    LET first_day == Ordinal(Date(y, 1, 1))
        first_weekday == (first_day + 6) % 7
        week1_monday == first_day - first_weekday
    IN  IF first_weekday > 3 THEN week1_monday + 7 ELSE week1_monday

\* line 731: dt.isocalendar()[1], the ISO week number (1-53)
IsoWeekNumber(dt) ==
    LET today == Ordinal(dt)
        week1_monday == IsoWeek1Monday(dt.y)
    IN  IF today < week1_monday
        THEN ((today - IsoWeek1Monday(dt.y - 1)) \div 7) + 1
        ELSE IF (today - week1_monday) \div 7 >= 52
                /\ today >= IsoWeek1Monday(dt.y + 1)
        THEN 1
        ELSE ((today - week1_monday) \div 7) + 1

\* the lengths of the lists of variations
HeroTextsLen == 12
CtaTextsLen == 12
IntroTextsLen == 12
TitleVariationsLen == 8
CtaButtonTextsLen == 10
CtaHeadersLen == 10

\* an entry of a list of variations: the list, which of its two versions
\* (with or without arts events; "any" for a list that has one version) and
\* the index in it.  The entries of each list are pairwise different texts.
TextEntry(list, version, index) ==
    [list |-> list, version |-> version, index |-> index]

\* lines 733-890: the six texts selected by the number n
SelectTexts(n, has_arts_events) ==
    LET version == IF has_arts_events THEN "arts" ELSE "sports" IN
    [hero_text |-> TextEntry("hero_texts", version, n % HeroTextsLen),
     cta_text |-> TextEntry("cta_texts", version, n % CtaTextsLen),
     intro_text |-> TextEntry("intro_texts", version, n % IntroTextsLen),
     title_text |-> TextEntry("title_variations", "any", n % TitleVariationsLen),
     cta_button_text |-> TextEntry("cta_button_texts", "any",
                                   n % CtaButtonTextsLen),
     cta_header_text |-> TextEntry("cta_headers", "any", n % CtaHeadersLen)]

\* the texts selected by the day of the month instead of the week number
get_dynamic_text_variations_by_day(start_date, has_arts_events) ==
    SelectTexts(start_date.d, has_arts_events)

\* lines 705-890; start_date is the date that line 730 parses from the
\* 'YYYY-MM-DD' argument
get_dynamic_text_variations(start_date, has_arts_events) ==
    SelectTexts(IsoWeekNumber(start_date), has_arts_events)

----------------------------------------------------------------------------
(* Run 9: calls of get_dynamic_text_variations                             *)

MaxTextCalls == 2

\* start dates: days of ISO weeks 40 and 41 of 2025, of week 1 of 2025 and of
\* 2026 (both begin in December), of week 2 of 2026, of weeks 52 and 53 of
\* 2026 and of week 1 of 2027
TextDates ==
    { Date(2025, 9, 29), Date(2025, 10, 3), Date(2025, 10, 5),
      Date(2025, 10, 6), Date(2024, 12, 30), Date(2025, 12, 29),
      Date(2026, 1, 1), Date(2026, 1, 5), Date(2026, 12, 21),
      Date(2026, 12, 28), Date(2027, 1, 3), Date(2027, 1, 4) }

InitText ==
    /\ pc = "texts"
    /\ text_calls = <<>>
    /\ IdleTeam /\ IdleCategorize /\ IdleRange /\ IdleRun /\ IdleMissing
    /\ IdleSignage

\* one call of get_dynamic_text_variations(start_date, has_arts_events)
GetTextVariations ==
    /\ pc = "texts"
    /\ Len(text_calls) < MaxTextCalls
    /\ \E start_date \in TextDates, has_arts_events \in BOOLEAN :
          text_calls' =
              Append(text_calls,
                     [start_date |-> start_date,
                      has_arts_events |-> has_arts_events,
                      texts |-> get_dynamic_text_variations(start_date,
                                                            has_arts_events)])
    /\ UNCHANGED <<pc, teamVars, catVars, rangeVars, runVars, missingVars,
                   signageVars>>

NextText == GetTextVariations

SpecText == InitText /\ [][NextText]_vars

\* the ordinal of the Monday of the week (Monday to Sunday) of a date
MondayOf(dt) == Ordinal(dt) - Weekday(dt)

\* the components of the result with the length of the list of each
TextComponents ==
    { <<"hero_text", HeroTextsLen>>, <<"cta_text", CtaTextsLen>>,
      <<"intro_text", IntroTextsLen>>, <<"title_text", TitleVariationsLen>>,
      <<"cta_button_text", CtaButtonTextsLen>>,
      <<"cta_header_text", CtaHeadersLen>> }

\* C19: two start dates in the same ISO week, with the same has_arts_events,
\* yield identical texts for every component; for consecutive ISO week
\* numbers w and w+1 the selected index differs for every component whose
\* list has more than one entry.
C19_TextsByIsoWeek ==
    \A i, j \in 1..Len(text_calls) :
        LET a == text_calls[i]
            b == text_calls[j]
        IN  /\ (MondayOf(a.start_date) = MondayOf(b.start_date)
                  /\ a.has_arts_events = b.has_arts_events) =>
                   a.texts = b.texts
            /\ IsoWeekNumber(b.start_date) = IsoWeekNumber(a.start_date) + 1 =>
                   \A c \in TextComponents :
                       c[2] > 1 => a.texts[c[1]].index # b.texts[c[1]].index

\* Monday 29 September and Sunday 5 October 2025 give the same texts
C19_Witness ==
    /\ Len(text_calls) = 2
    /\ text_calls[1].start_date = Date(2025, 9, 29)
    /\ text_calls[2].start_date = Date(2025, 10, 5)
    /\ text_calls[1].has_arts_events = text_calls[2].has_arts_events
    /\ text_calls[1].texts = text_calls[2].texts
    /\ text_calls[1].texts.hero_text.index = 4


----------------------------------------------------------------------------
(* Run 10: the sport of a row's team and the category of an event's title  *)

\* words the team names of this run are made of
SportWords ==
    { <<"V","a","r","s","i","t","y">>, <<"S","O","C","C","E","R">>,
      <<"S","o","c","c","e","r">>, <<"X","C">>,
      <<"C","r","o","s","s"," ","C","o","u","n","t","r","y">>,
      <<"T","R","A","C","K">>, <<"I","c","e"," ","H","o","c","k","e","y">>,
      <<"C","h","e","s","s">>, <<"S","w","i","m","m","i","n","g">> }

\* words the titles of this run are made of
TitleWords ==
    { <<"F","a","l","l">>, <<"C","O","N","C","E","R","T">>,
      <<"D","a","n","c","e">>, <<"A","r","t">>,
      <<"T","h","e","a","t","r","e">>, <<"S","h","o","w","c","a","s","e">>,
      <<"R","e","c","i","t","a","l">>, <<"M","u","s","i","c">> }

\* the texts of one to n of the words, joined by single blanks
RECURSIVE TextsOfWords(_, _)
TextsOfWords(words, n) ==
    IF n <= 1 THEN words
    ELSE TextsOfWords(words, n - 1) \cup
         { a \o SP \o w : a \in TextsOfWords(words, n - 1), w \in words }

\* a page of one row in the range, or a feed of one event in the range
InitClassify ==
    /\ pc = "start"
    /\ start_dt = RangeStart
    /\ end_dt = RangeEnd
    /\ \/ /\ \E t \in TextsOfWords(SportWords, MaxWords) :
                page = << Row(t, <<"O","c","t","3","2","0","2","5">>, S_Home) >>
          /\ feed = <<>>
       \/ /\ page = <<>>
          /\ \E title \in TextsOfWords(TitleWords, MaxWords) :
                feed = << Component(TRUE, title, TRUE, S_Hall, "date",
                                    Date(2025, 10, 3), 0, 0) >>
    /\ has_more = FALSE
    /\ sched_response = "pending"
    /\ sched_fetches = 0
    /\ arts_response = "pending"
    /\ games = <<>>
    /\ arts_events = <<>>
    /\ raised = FALSE
    /\ all_events = <<>>
    /\ middle_school_events = <<>>
    /\ upper_school_events = <<>>
    /\ files = <<>>
    /\ exit_code = -1
    /\ IdleTeam /\ IdleCategorize /\ IdleMissing
    /\ IdleSignage /\ IdleText

NextClassify == ScrapeOk \/ FetchArtsOk

SpecClassify == InitClassify /\ [][NextClassify]_vars

\* the fixed vocabularies
SportVocabulary == { Sports[k] : k \in 1..Len(Sports) }

ArtsVocabulary == { ArtsCategories[k] : k \in 1..Len(ArtsCategories) }

\* C14: for every team string extract_sport_from_team returns a non-empty
\* lowercase value of the sport vocabulary or 'other' ('xc' standing for
\* 'cross country'), and for every title extract_arts_category returns a
\* non-empty lowercase value of the arts vocabulary, 'performance' when
\* nothing matches; the matching disregards case.
C14_ClassificationClosed ==
    pc = "fetched" =>
        /\ Len(games) = Len(page)
        /\ Len(arts_events) = Len(feed)
        /\ \A n \in 1..Len(games) :
              LET t == Lower(games[n].team)
                  sport == games[n].sport
                  named == \E key \in SportVocabulary : Contains(t, key)
              IN  /\ sport # <<>>
                  /\ Lower(sport) = sport
                  /\ sport \in SportVocabulary \cup {S_other}
                  /\ named => Contains(t, sport)
                  /\ (~named /\ Contains(t, S_xc)) =>
                         sport = <<"c","r","o","s","s"," ","c","o","u","n","t","r","y">>
                  /\ (~named /\ ~Contains(t, S_xc)) => sport = S_other
        /\ \A n \in 1..Len(arts_events) :
              LET t == Lower(arts_events[n].title)
                  category == arts_events[n].category
                  named == \E key \in ArtsVocabulary : Contains(t, key)
              IN  /\ category # <<>>
                  /\ Lower(category) = category
                  /\ category \in ArtsVocabulary
                  /\ named => Contains(t, category)
                  /\ ~named =>
                         category = <<"p","e","r","f","o","r","m","a","n","c","e">>

\* 'Varsity XC' is cross country
C14_Witness ==
    /\ pc = "fetched"
    /\ Len(games) = 1
    /\ games[1].team = <<"V","a","r","s","i","t","y"," ","X","C">>
    /\ games[1].sport = <<"c","r","o","s","s"," ","c","o","u","n","t","r","y">>


----------------------------------------------------------------------------
(* Signage: generate_signage_html and main of generate_signage.py          *)

\* generate_event_card_html(event, is_featured=(event in featured), ...): a
\* card, by the event it shows and its is_featured argument
EventCard(event, featured_list) ==
    [event |-> event, is_featured |-> InSeq(event, featured_list)]

\* the cards of all_events_list[from..to] (1-based), in order
EventCards(all_events_list, from, to, featured_list) ==
    [k \in 1..(to - from + 1) |->
        EventCard(all_events_list[from + k - 1], featured_list)]

\* the grids without the two special layouts: always one grid
SignageGridsSingle(total_events, all_events_list, featured_list, grid_columns) ==
    << [columns |-> grid_columns,
        cards |-> EventCards(all_events_list, 1, Len(all_events_list),
                             featured_list)] >>

\* lines 345-380: the grids of cards, each with its grid-template-columns
SignageGrids(total_events, all_events_list, featured_list, grid_columns) ==
    IF total_events = 5
    THEN << [columns |-> "repeat(3, 1fr)",
             cards |-> EventCards(all_events_list, 1, 3, featured_list)],
            [columns |-> "repeat(2, 1fr)",
             cards |-> EventCards(all_events_list, 4, 5, featured_list)] >>
    ELSE IF total_events = 7
    THEN << [columns |-> "repeat(4, 1fr)",
             cards |-> EventCards(all_events_list, 1, 4, featured_list)],
            [columns |-> "repeat(3, 1fr)",
             cards |-> EventCards(all_events_list, 5, 7, featured_list)] >>
    ELSE << [columns |-> grid_columns,
             cards |-> EventCards(all_events_list, 1, Len(all_events_list),
                                  featured_list)] >>

\* lines 309-321: the page for no event
NoEventsPage == [heading |-> "No Events Today", grids |-> <<>>]

\* lines 296-484: the page, by its heading and its grids
generate_signage_html(evs) ==
    IF evs = <<>> THEN NoEventsPage
    ELSE LET total_events == Len(evs)
             layout_config == get_layout_config(total_events)
             lists == categorize_events(evs)
             all_events_list == lists[1] \o lists[2]
         IN  [heading |-> "Today's Events",
              grids |-> SignageGrids(total_events, all_events_list, lists[1],
                                     layout_config.grid_columns)]

----------------------------------------------------------------------------
(* Run 11: main of generate_signage.py for one day                         *)

MaxSignageRows == 7

\* the day the signage is generated for
SignageDay == Date(2025, 10, 3)

\* rows of the schedule table: a varsity and a JV home game of the day and a
\* game of another day
SignageRows ==
    { Row(T_VarsitySoccer, <<"O","c","t","3","2","0","2","5">>, S_Home),
      Row(T_JVSoccer, <<"O","c","t","3","2","0","2","5">>, S_Home) }

SignageComponents ==
    { Component(TRUE, T_Concert, TRUE, S_Hall, "date", SignageDay, 0, 0) }

InitSignage ==
    /\ pc = "start"
    /\ start_dt = SignageDay
    /\ end_dt = SignageDay
    /\ page \in SeqsUpTo(SignageRows, MaxSignageRows)
    /\ feed \in SeqsUpTo(SignageComponents, MaxComponents)
    /\ has_more = FALSE
    /\ sched_response = "pending"
    /\ sched_fetches = 0
    /\ arts_response = "pending"
    /\ games = <<>>
    /\ arts_events = <<>>
    /\ raised = FALSE
    /\ all_events = <<>>
    /\ middle_school_events = <<>>
    /\ upper_school_events = <<>>
    /\ files = <<>>
    /\ exit_code = -1
    /\ IdleTeam /\ IdleCategorize /\ IdleMissing
    /\ IdleSignage /\ IdleText

\* the rest of main with an empty event list treated as in the email run:
\* exit with status 1 and no file
GenerateSignageExitsOnEmpty ==
    /\ pc = "fetched"
    /\ all_events' = games \o arts_events
    /\ LET evs == games \o arts_events IN
       IF evs = <<>>
       THEN /\ exit_code' = 1
            /\ UNCHANGED <<files, featured, regular, layout_calls,
                           categorize_calls>>
       ELSE /\ layout_calls' = Append(layout_calls,
                                  [total_events |-> Len(evs),
                                   layout_config |-> get_layout_config(Len(evs))])
            /\ featured' = categorize_events(evs)[1]
            /\ regular' = categorize_events(evs)[2]
            /\ categorize_calls' = categorize_calls + 1
            /\ files' = Append(files, [name |-> "index.html",
                                       html |-> generate_signage_html(evs)])
            /\ exit_code' = 0
    /\ pc' = "signage_done"
    /\ UNCHANGED <<events, is_middle_school, other, middle_school_events,
                   upper_school_events, raised, siteVars, fetchVars,
                   rangeVars, textVars, teamVars, missingVars>>

\* lines 510-524 of main, after fetch_events_for_date has made the two
\* fetches: all_events = games + arts_events (line 78), generate_signage_html
\* (with its calls of get_layout_config and categorize_events, lines 325 and
\* 328, when there are events), the write of index.html, and the return
GenerateSignage ==
    /\ pc = "fetched"
    /\ all_events' = games \o arts_events
    /\ LET evs == games \o arts_events IN
       IF evs = <<>>
       THEN UNCHANGED <<featured, regular, layout_calls, categorize_calls>>
       ELSE /\ layout_calls' = Append(layout_calls,
                                  [total_events |-> Len(evs),
                                   layout_config |-> get_layout_config(Len(evs))])
            /\ featured' = categorize_events(evs)[1]
            /\ regular' = categorize_events(evs)[2]
            /\ categorize_calls' = categorize_calls + 1
    /\ files' = Append(files, [name |-> "index.html",
                               html |-> generate_signage_html(games \o arts_events)])
    /\ exit_code' = 0
    /\ pc' = "signage_done"
    /\ UNCHANGED <<events, is_middle_school, other, middle_school_events,
                   upper_school_events, raised, siteVars, fetchVars,
                   rangeVars, textVars, teamVars, missingVars>>

NextSignage ==
    \/ ScrapeOk
    \/ ScrapeNoTable
    \/ ScrapeNetworkError
    \/ FetchArtsOk
    \/ FetchArtsNetworkError
    \/ GenerateSignage

SpecSignage == InitSignage /\ [][NextSignage]_vars


\* the cards of all the grids of a page, in order
RECURSIVE CardsOf(_, _)
CardsOf(grids, k) ==
    IF k > Len(grids) THEN <<>> ELSE grids[k].cards \o CardsOf(grids, k + 1)

\* an event the signage features: a performance or a varsity game
SignageFeatured(e) == e.event_type = "arts" \/ is_varsity_game(e.team)

SignageRegular(e) == ~SignageFeatured(e)

----------------------------------------------------------------------------
(* Run 12: the scrape of a page of one row, over the opponent cells         *)

\* words the opponent cells of this run are made of
OpponentWords ==
    { <<"v","s",".">>, <<"V","S",".">>, <<"E","a","g","l","e","s">>,
      <<"H","a","w","k","s">>, <<"a","t">>, <<"S","t",".">>,
      <<"C","a","n","v","s",".">> }

InitOpponent ==
    /\ pc = "start"
    /\ start_dt = RangeStart
    /\ end_dt = RangeEnd
    /\ \E cell \in TextsOfWords(OpponentWords, MaxWords) :
          page = << <<T_Soccer, cell, <<"O","c","t","3","2","0","2","5">>,
                      S_4pm, S_Field, S_Home>> >>
    /\ feed = <<>>
    /\ has_more = FALSE
    /\ sched_response = "pending"
    /\ sched_fetches = 0
    /\ arts_response = "pending"
    /\ games = <<>>
    /\ arts_events = <<>>
    /\ raised = FALSE
    /\ all_events = <<>>
    /\ middle_school_events = <<>>
    /\ upper_school_events = <<>>
    /\ files = <<>>
    /\ exit_code = -1
    /\ IdleTeam /\ IdleCategorize /\ IdleMissing
    /\ IdleSignage /\ IdleText

NextOpponent == ScrapeOk

SpecOpponent == InitOpponent /\ [][NextOpponent]_vars

\* a text with a leading 'vs.' taken off, then trimmed
WithoutVsPrefix(cell) ==
    Strip(IF StartsWith(cell, S_vs) THEN SliceFrom(cell, Len(S_vs)) ELSE cell)

\* C22: the opponent of a Game is the opponent cell with a literal leading
\* 'vs.' removed and the surrounding blanks trimmed; the rest of the cell is
\* unchanged, an occurrence of 'vs.' that is not the prefix being kept.
C22_OpponentPrefixOnly ==
    (pc = "scraped" /\ sched_response = "ok") =>
        /\ Len(games) = Len(page)
        /\ \A n \in 1..Len(games) :
              games[n].opponent = WithoutVsPrefix(page[n][2])

\* C23: a team whose name contains a JV indicator ('jv', 'junior varsity'),
\* 'c team', or a grade-level or middle-school indicator ('6th', '7th', '8th',
\* 'middle school', 'ms') is never classified as varsity by is_varsity_game.
C23_NonVarsityIndicatorNeverVarsity ==
    pc = "team_classified" =>
        (ContainsAny(Lower(team), non_varsity_indicators) => ~varsity)

\* C24: for every ISO week number, all text components returned by
\* get_dynamic_text_variations (hero, CTA, intro, title, CTA button, CTA
\* header) are taken at the same variation index.
C24_ComponentsInSync ==
    \A i \in 1..Len(text_calls) :
        \A c, d \in TextComponents :
            text_calls[i].texts[c[1]].index = text_calls[i].texts[d[1]].index

----------------------------------------------------------------------------
(* Claims about the email files of a run                                   *)

\* the email an event belongs to: lines 578-581
LevelOf(event) ==
    IF HasMiddleSchoolText(event) THEN "Middle School" ELSE "Upper School"

FilesOfLevel(level) == { f \in 1..Len(files) : files[f].level = level }

\* C25: in an email run whose combined event list is non-empty, the
\* middle-school file is written iff at least one event is bucketed as middle
\* school and the upper-school file iff at least one event is not; hence at
\* least one file is written, every event appears in exactly one written
\* email, and the middle-school file is written before the upper-school file.
C25_FilesMatchBuckets ==
    (pc = "exited" /\ all_events # <<>>) =>
        /\ FilesOfLevel("Middle School") # {} <=> middle_school_events # <<>>
        /\ FilesOfLevel("Upper School") # {} <=> upper_school_events # <<>>
        /\ files # <<>>
        /\ \A k \in 1..Len(all_events) :
              Cardinality(FilesOfLevel(LevelOf(all_events[k]))) = 1
        /\ \A a \in FilesOfLevel("Middle School") :
              \A b \in FilesOfLevel("Upper School") : a < b

----------------------------------------------------------------------------
(* The missing weekdays and the days that have events                      *)

\* the keys of games_by_date that are not in the form strftime('%b %d %Y')
\* gives their day
UnpaddedKeys ==
    { k \in 1..Len(date_keys) :
        date_keys[k] # StrftimeBdY(StrptimeSpaced(date_keys[k])) }

\* C26: a weekday on which at least one event falls is never returned by
\* get_missing_weekdays, also when the event's date key is not zero-padded
\* ('Oct 3 2025') and so differs from the key the function looks up
\* ('Oct 03 2025').  The keys are those the sort of line 1179 lets through:
\* get_missing_weekdays is called on line 1180 only.
C26_EventDayNeverMissing ==
    pc = "missing_done" =>
        \A n \in 1..Len(missing) :
            /\ StrptimeSpaced(missing[n]).ok
            /\ Ordinal(StrptimeSpaced(missing[n])) \notin EventOrdinals

\* an event under an unpadded key on a weekday of the range, strictly between
\* two other event days, with other days of the range returned
C26_Witness ==
    /\ pc = "missing_done"
    /\ missing # <<>>
    /\ \E k \in UnpaddedKeys :
          LET day == StrptimeSpaced(date_keys[k]) IN
          /\ Weekday(day) < 5
          /\ Ordinal(start_dt) < Ordinal(day) /\ Ordinal(day) < Ordinal(end_dt)
          /\ \E a, b \in EventOrdinals : a < Ordinal(day) /\ Ordinal(day) < b
          /\ \A n \in 1..Len(missing) : missing[n] # StrftimeBdY(day)

----------------------------------------------------------------------------
(* The date token with a run of seven digits                               *)

\* C28: a date token whose month is followed by a run of exactly 7 digits is
\* split into a 2-digit day and a 5-digit year, which matches neither
\* accepted format, so the row is skipped and yields no Game, whatever the
\* digits are.
C28_SevenDigitsSkipped ==
    (DatesScraped /\ Token \in SevenDigitTokens) =>
        LET month == SliceTo(Token, 3)
            rest == SliceFrom(Token, 3)
            split == month \o SP \o SliceTo(rest, 2) \o SP \o SliceFrom(rest, 2)
        IN  /\ Len(rest) = 7 /\ IsDigitStr(rest)
            /\ NormalizeDateStr(Token) = split
            /\ Len(SliceFrom(rest, 2)) = 5
            /\ ~StrptimeSpaced(split).ok
            /\ ~StrptimeJoined(split).ok
            /\ games = <<>>

\* 'Oct0320255' is split into 'Oct 03 20255' and gives no Game
C28_Witness ==
    /\ DatesScraped
    /\ Token = <<"O","c","t","0","3","2","0","2","5","5">>
    /\ NormalizeDateStr(Token)
           = <<"O","c","t"," ","0","3"," ","2","0","2","5","5">>
    /\ games = <<>>

----------------------------------------------------------------------------
(* A text with more than one keyword                                       *)

\* the positions in the vocabulary of the keywords a text contains
KeywordsPresent(vocabulary, t) ==
    { n \in 1..Len(vocabulary) : Contains(t, vocabulary[n]) }

\* the keyword of a non-empty set of positions that comes first in the
\* vocabulary
FirstOfVocabulary(vocabulary, present) ==
    vocabulary[CHOOSE n \in present : \A m \in present : n <= m]

\* C29: when a team or title string contains more than one vocabulary
\* keyword, the result is the keyword that comes first in the fixed
\* vocabulary order (sports: soccer ... ice hockey, then the 'xc' special
\* case; arts: dance ... exhibit), wherever the keywords occur in the string:
\* the result is a function of the set of keywords present.
C29_FirstKeywordOfVocabulary ==
    pc = "fetched" =>
        /\ \A n \in 1..Len(games) :
              LET t == Lower(games[n].team)
                  present == KeywordsPresent(Sports, t)
              IN  /\ present # {} =>
                         games[n].sport = FirstOfVocabulary(Sports, present)
                  /\ (present = {} /\ Contains(t, S_xc)) =>
                         games[n].sport = Sports[5]
        /\ \A n \in 1..Len(arts_events) :
              LET t == Lower(arts_events[n].title)
                  present == KeywordsPresent(ArtsCategories, t)
              IN  present # {} =>
                      arts_events[n].category
                          = FirstOfVocabulary(ArtsCategories, present)

\* 'Swimming Soccer' names swimming first and is classified as soccer
C29_Witness ==
    /\ pc = "fetched"
    /\ Len(games) = 1
    /\ games[1].team = <<"S","w","i","m","m","i","n","g"," ","S","o","c","c","e","r">>
    /\ Cardinality(KeywordsPresent(Sports, Lower(games[1].team))) = 2
    /\ games[1].sport = S_soccer

=============================================================================
